---- MODULE Spec2Model ----
(***************************************************************************)
(* A model of the sitebot chat relay: the WebSocket handler (connect,      *)
(* disconnect, message), the session manager over the DynamoDB table, the  *)
(* input validator and the Perplexity client with its retry loop.          *)
(*                                                                         *)
(* Each handler invocation is a process occupying a slot of inv; it moves  *)
(* from one await of the code to the next, so invocations interleave at    *)
(* the store reads and writes, the API calls and the pushes, as Lambda     *)
(* invocations do.  The table is modelled as a linearizable key-value      *)
(* store; UpdateCommand without a ConditionExpression creates the item     *)
(* when the key is absent, as DynamoDB's UpdateItem does.                  *)
(*                                                                         *)
(* JavaScript strings that the code inspects character by character are    *)
(* sequences of one-character strings; strings it only passes along are    *)
(* TLA+ strings, and a template literal is the sequence of its segments.   *)
(***************************************************************************)
EXTENDS Integers, Sequences, FiniteSets, TLC

(* ------------------------------ bounds --------------------------------- *)

\* Handler invocations that may be in flight at once.
MaxInflight == 2
\* Events delivered to the handler in one behaviour of Spec, of SpecLong
\* and of SpecRace.
MaxEvents == 4
MaxLongEvents == 11
MaxRaceEvents == 3
\* Session identifiers uuidv4 can draw (each is drawn at most once).
MaxSid == 2
\* Clock ticks in one behaviour, and the length of a tick in milliseconds.
MaxTicks == 2
TickMs == 500
\* Events delivered in one behaviour of SpecSweep.
MaxSweepEvents == 3
\* Pieces a text or a tenant id given to a pure function is made of.
MaxChunks == 3
MaxHistoryEvents == 11
MaxSidEvents == 5
MaxAloneEvents == 5
MaxContextHistory == 5

(* -------------------------- program constants -------------------------- *)

sessionTTL == 3600
maxRetries == 3
retryDelay == 1000
MaxTextLen == 500
HistoryKeep == 8
RecentKeep == 3

Conns == {"c1"}
Invs == 1..MaxInflight
Sids == 1..MaxSid

(* ------------------------------ strings -------------------------------- *)

UpperToLower ==
  [c \in {"A", "C", "E", "I", "J", "L", "P", "R", "S", "T", "V"} |->
     CASE c = "A" -> "a" [] c = "C" -> "c" [] c = "E" -> "e" [] c = "I" -> "i"
       [] c = "J" -> "j" [] c = "L" -> "l" [] c = "P" -> "p" [] c = "R" -> "r"
       [] c = "S" -> "s" [] c = "T" -> "t" [] c = "V" -> "v"]

LowerCh(c) == IF c \in DOMAIN UpperToLower THEN UpperToLower[c] ELSE c

toLowerCase(s) == [k \in 1..Len(s) |-> LowerCh(s[k])]

IsSpace(c) == c \in {" ", "\t", "\n"}

IsAlnumHyphen(c) ==
  c \in {"a", "b", "c", "d", "e", "f", "g", "h", "i", "j", "k", "l", "m",
         "n", "o", "p", "q", "r", "s", "t", "u", "v", "w", "x", "y", "z",
         "A", "C", "E", "I", "J", "L", "P", "R", "S", "T", "V",
         "0", "1", "2", "3", "4", "5", "6", "7", "8", "9", "-"}

RECURSIVE TrimLeft(_)
TrimLeft(s) == IF s # <<>> /\ IsSpace(Head(s)) THEN TrimLeft(Tail(s)) ELSE s

RECURSIVE TrimRight(_)
TrimRight(s) ==
  IF s # <<>> /\ IsSpace(s[Len(s)]) THEN TrimRight(SubSeq(s, 1, Len(s) - 1)) ELSE s

\* String.prototype.trim
trim(s) == TrimRight(TrimLeft(s))

\* String.prototype.substring(0, n)
substring(s, n) == IF Len(s) > n THEN SubSeq(s, 1, n) ELSE s

\* s.slice(-n) of an array
sliceLast(s, n) == IF Len(s) > n THEN SubSeq(s, Len(s) - n + 1, Len(s)) ELSE s

\* The word w, case-insensitively, starts at position k of s.
WordAt(s, k, w) ==
  /\ k + Len(w) - 1 <= Len(s)
  /\ \A j \in 1..Len(w) : LowerCh(s[k + j - 1]) = w[j]

\* The regular expression /w\s*c/i matches somewhere in s.
MatchWordSpacesCh(s, w, c) ==
  \E k \in 1..Len(s) : \E e \in 1..Len(s) :
     /\ WordAt(s, k, w)
     /\ e >= k + Len(w)
     /\ \A j \in (k + Len(w))..(e - 1) : IsSpace(s[j])
     /\ s[e] = c

\* The regular expression /w/i matches somewhere in s.
MatchWord(s, w) == \E k \in 1..Len(s) : WordAt(s, k, w)

JsProtocol == <<"j", "a", "v", "a", "s", "c", "r", "i", "p", "t", ":">>

\* s.replace(/[<>]/g, '')
StripBrackets(s) == SelectSeq(s, LAMBDA c : c \notin {"<", ">"})

\* s.replace(/javascript:/gi, ''): one left-to-right pass over s.
RECURSIVE StripJsProtocol(_)
StripJsProtocol(s) ==
  IF s = <<>> THEN <<>>
  ELSE IF WordAt(s, 1, JsProtocol)
       THEN StripJsProtocol(SubSeq(s, Len(JsProtocol) + 1, Len(s)))
       ELSE <<Head(s)>> \o StripJsProtocol(Tail(s))

(* --------------------------- SecurityManager --------------------------- *)

sanitizeText(text) ==
  substring(StripJsProtocol(StripBrackets(trim(text))), MaxTextLen)

containsHarmfulContent(text) ==
  \/ MatchWordSpacesCh(text, <<"s", "c", "r", "i", "p", "t">>, ":")
  \/ MatchWordSpacesCh(text, <<"j", "a", "v", "a", "s", "c", "r", "i", "p", "t">>, ":")
  \/ MatchWord(text, <<"<", "s", "c", "r", "i", "p", "t">>)
  \/ MatchWordSpacesCh(text, <<"e", "v", "a", "l">>, "(")
  \/ MatchWordSpacesCh(text, <<"d", "o", "c", "u", "m", "e", "n", "t">>, ".")

\* A parsed message body.  json: what JSON.parse produced ("invalid": it
\* threw); tkind: the type of the text property; text: its characters when it
\* is a string; sessionId: the client-supplied session id, 0 when absent.
Body(json, tkind, text, sid) ==
  [json |-> json, tkind |-> tkind, text |-> text, sessionId |-> sid]

\* A validateMessage without the length test: sanitizeText cuts the text.
validateMessageTruncating(message) ==
  IF message.json # "object"
    THEN [ok |-> FALSE, err |-> "Invalid message format", text |-> <<>>]
  ELSE IF message.tkind # "string" \/ message.text = <<>>
    THEN [ok |-> FALSE, err |-> "Message text is required and must be a string",
          text |-> <<>>]
  ELSE IF containsHarmfulContent(message.text)
    THEN [ok |-> FALSE, err |-> "Message contains inappropriate content",
          text |-> <<>>]
  ELSE [ok |-> TRUE, err |-> "", text |-> sanitizeText(message.text)]

\* validateMessage: ok FALSE when it throws, with the error's message.
validateMessage(message) ==
  IF message.json # "object"
    THEN [ok |-> FALSE, err |-> "Invalid message format", text |-> <<>>]
  ELSE IF message.tkind # "string" \/ message.text = <<>>
    THEN [ok |-> FALSE, err |-> "Message text is required and must be a string",
          text |-> <<>>]
  ELSE IF Len(message.text) > MaxTextLen
    THEN [ok |-> FALSE, err |-> "Message too long", text |-> <<>>]
  ELSE IF containsHarmfulContent(message.text)
    THEN [ok |-> FALSE, err |-> "Message contains inappropriate content",
          text |-> <<>>]
  ELSE [ok |-> TRUE, err |-> "", text |-> sanitizeText(message.text)]

DefaultCompany == <<"v", "a", "n", "g", "u", "a", "r", "d">>

\* validateCompanyId; companyId <<>> stands for a missing or non-string id.
validateCompanyId(companyId) ==
  IF companyId = <<>> THEN DefaultCompany
  ELSE substring(toLowerCase(SelectSeq(companyId, IsAlnumHyphen)), 50)

(* ------------------------ tenant configuration ------------------------- *)

\* companyConfigurations and getGenericConfig: the fields the handler and the
\* Perplexity client read.  A stored snapshot is named by its key here.
companyConfigurations ==
  [vanguard |->
     [name |-> "Vanguard",
      urls |-> <<"https://investor.vanguard.com", "https://corporate.vanguard.com",
                 "https://about.vanguard.com">>,
      responseStyle |-> "friendly, professional, educational, conservative"]]

getGenericConfig ==
  [name |-> "Assistant", urls |-> <<>>,
   responseStyle |-> "helpful, professional, informative"]

\* A property the value does not have.
Undefined == "undefined"

IdConstructor == <<"c", "o", "n", "s", "t", "r", "u", "c", "t", "o", "r">>
IdProto == <<"_", "_", "p", "r", "o", "t", "o", "_", "_">>

\* The registered tenant ids: the own keys of companyConfigurations.
RegisteredTenants == {DefaultCompany}

\* getCompanyConfig, by the name of what it returns.  companyConfigurations
\* is an object literal, so companyConfigurations[companyId] also finds what
\* Object.prototype defines: "constructor" gives the function Object,
\* "__proto__" gives Object.prototype, both truthy.
getCompanyConfig(companyId) ==
  IF companyId = DefaultCompany THEN "vanguard"
  ELSE IF companyId = IdConstructor THEN "Object"
  ELSE IF companyId = IdProto THEN "Object.prototype"
  ELSE "generic"

\* The fields of what getCompanyConfig returned.
ConfigOf(snapshot) ==
  CASE snapshot = "vanguard" -> companyConfigurations.vanguard
    [] snapshot = "Object" ->
         [name |-> "Object", urls |-> <<>>, responseStyle |-> Undefined]
    [] snapshot = "Object.prototype" ->
         [name |-> Undefined, urls |-> <<>>, responseStyle |-> Undefined]
    [] OTHER -> getGenericConfig

\* validateConfig: the required keys, and whether one is missing.
RequiredConfig == {"perplexityApiKey", "dynamoDbTable", "websocketApiEndpoint"}

(* --------------------------- PerplexityService ------------------------- *)

RetryableStatusCodes == {429, 500, 502, 503, 504}

\* An outcome of client.chat.completions.create: kind "ok" with the content
\* returned, "malformed" (a response without choices: reading it throws a
\* TypeError), or "error" with the error's status (0: none) and whether its
\* message mentions timeout or network.
ApiOk(content) == [kind |-> "ok", content |-> content, status |-> 0, msg |-> "none"]
ApiMalformed == [kind |-> "malformed", content |-> <<>>, status |-> 0, msg |-> "none"]
ApiError(status, msg) == [kind |-> "error", content |-> <<>>, status |-> status, msg |-> msg]

\* A classification that takes every error for a retryable one.
isRetryableErrorAny(error) == TRUE

isRetryableError(error) ==
  \/ error.status \in RetryableStatusCodes
  \/ error.msg = "timeout"
  \/ error.msg = "network"

\* The error makeApiRequest's catch block sees for an outcome that failed.
ThrownBy(outcome) ==
  IF outcome.kind = "malformed" THEN ApiError(0, "TypeError") ELSE outcome

\* A backoff that waits the base delay before every retry.
RetryWaitConstant(attempt) == retryDelay

\* makeApiRequest's wait before the retry that follows the attempt.
RetryWait(attempt) == retryDelay * attempt

\* A retry test that lets the attempt after the last one through.
ShouldRetryInclusive(attempt, error) == attempt <= maxRetries /\ isRetryableError(error)

\* makeApiRequest's catch block: retry this failed attempt?
ShouldRetry(attempt, error) == attempt < maxRetries /\ isRetryableError(error)

getFallbackResponse(companyConfig) ==
  <<"I apologize, but I'm experiencing technical difficulties right now. For immediate assistance, please visit our official website at ",
    IF companyConfig.urls # <<>> THEN companyConfig.urls[1] ELSE "our website",
    " or contact our support team directly. I'll be back online shortly to help with your ",
    companyConfig.name,
    " questions.">>

\* The credential that stands for local development, and one that does not.
DummyKey == "dummy-key-for-local-dev"
LiveKey == "pplx-key"

\* A client that never takes the local-development branch.
UsesLocalResponseNever(key) == FALSE

\* generateResponse's first test: is the client's key the dummy key?
UsesLocalResponse(key) == key = DummyKey

\* The characters of a company name.
NameChars(name) ==
  CASE name = "Vanguard" -> <<"V", "a", "n", "g", "u", "a", "r", "d">>
    [] name = "Assistant" -> <<"A", "s", "s", "i", "s", "t", "a", "n", "t">>
    [] name = "Object" -> <<"O", "b", "j", "e", "c", "t">>

\* getLocalDevelopmentResponse's four responses.
LocalResponses(userMessage, companyConfig) ==
  << <<"Hello! This is a local development response for ", companyConfig.name,
       ". I'm here to help with your questions about ">>
       \o toLowerCase(NameChars(companyConfig.name))
       \o <<" investments, funds, and services.">>,
     <<"Thanks for your message: \"">> \o userMessage
       \o <<"\". In a real deployment, I would provide detailed information about ",
            companyConfig.name, "'s investment products and services.">>,
     <<"This is a development environment for the ", companyConfig.name,
       " chatbot. I can help you with questions about our low-cost investing philosophy, retirement planning, and account management.">>,
     <<"Welcome to the ", companyConfig.name,
       " assistant! I'm currently running in development mode. I can help you understand our investor-owned structure and long-term wealth building strategies.">> >>

\* getLocalDevelopmentResponse, k being Math.floor(Math.random() * 4) + 1.
getLocalDevelopmentResponse(userMessage, companyConfig, k) ==
  LocalResponses(userMessage, companyConfig)[k]

\* A generateResponse without its catch block: the error reaches the caller.
GenerateRethrows(companyConfig) == [threw |-> TRUE, value |-> <<>>]

\* What generateResponse does with an error makeApiRequest threw: its catch
\* block returns the fallback (threw FALSE: nothing reaches the caller).
GenerateCatch(companyConfig) ==
  [threw |-> FALSE, value |-> getFallbackResponse(companyConfig)]

\* The turns of the exchanges, in order: exchange k gives turns 2k-1 (user)
\* and 2k (assistant).
HistoryTurns(exchanges) ==
  [k \in 1..(2 * Len(exchanges)) |->
     IF k % 2 = 1
       THEN [role |-> "user", content |-> exchanges[(k + 1) \div 2].user]
       ELSE [role |-> "assistant", content |-> exchanges[k \div 2].assistant]]

\* A context that carries the whole history.
buildMessageContextWhole(systemPrompt, conversationHistory, userMessage) ==
  <<[role |-> "system", content |-> systemPrompt]>>
    \o HistoryTurns(conversationHistory)
    \o <<[role |-> "user", content |-> userMessage]>>

\* buildMessageContext: the system message, the turns of
\* conversationHistory.slice(-3), the current user message.
buildMessageContext(systemPrompt, conversationHistory, userMessage) ==
  <<[role |-> "system", content |-> systemPrompt]>>
    \o HistoryTurns(sliceLast(conversationHistory, RecentKeep))
    \o <<[role |-> "user", content |-> userMessage]>>

(* ------------------------------ the store ------------------------------ *)

NoSid == 0
NoTime == -1

\* A session item.  An attribute the item does not have is NoSid, NoTime,
\* "none" or <<>>.  lastActivity is the ISO string updateSession's caller
\* passes, LastActivity the seconds updateSession sets itself.
Row(pk, sk, sessionId, createdAt, lastAct, ttl, companyId, companyConfig, connectedAt, history, isoActivity) ==
  [PK |-> pk, SK |-> sk, SessionId |-> sessionId, CreatedAt |-> createdAt,
   LastActivity |-> lastAct, TTL |-> ttl, companyId |-> companyId,
   companyConfig |-> companyConfig, connectedAt |-> connectedAt,
   conversationHistory |-> history, lastActivity |-> isoActivity]

NoRow == Row("none", NoSid, NoSid, NoTime, NoTime, NoTime, <<>>, "none", NoTime, <<>>, NoTime)

\* Math.floor(Date.now() / 1000)
Seconds(ms) == ms \div 1000

RowsOf(st, connectionId) == {r \in st : r.PK = connectionId}

KeyOf(r) == <<r.PK, r.SK>>

\* Query PK = :pk, ScanIndexForward false, Limit 1: the item with the
\* greatest sort key.
QueryLatest(st, connectionId) ==
  IF RowsOf(st, connectionId) = {} THEN NoRow
  ELSE CHOOSE r \in RowsOf(st, connectionId) :
         \A q \in RowsOf(st, connectionId) : q.SK <= r.SK

\* A lookup that returns the item with the requested session id when the
\* connection has one.
getSessionRequested(st, connectionId, sessionId) ==
  IF \E r \in RowsOf(st, connectionId) : r.SK = sessionId
    THEN CHOOSE r \in RowsOf(st, connectionId) : r.SK = sessionId
    ELSE QueryLatest(st, connectionId)

\* getSession when its query succeeds: the connection's latest item; the
\* sessionId parameter is only logged.
getSession(st, connectionId, sessionId) == QueryLatest(st, connectionId)

\* An item whose TTL is the creation time, without the window.
NewItemNoWindow(connectionId, sessionId, ms, companyId, companyConfig) ==
  Row(connectionId, sessionId, sessionId, Seconds(ms), Seconds(ms),
      Seconds(ms), companyId, companyConfig, ms, <<>>, NoTime)

\* createConnection's item.
NewItem(connectionId, sessionId, ms, companyId, companyConfig) ==
  Row(connectionId, sessionId, sessionId, Seconds(ms), Seconds(ms),
      Seconds(ms) + sessionTTL, companyId, companyConfig, ms, <<>>, NoTime)

\* A put that leaves the item as the table's only one.
PutItemReplacesAll(st, item) == {item}

\* A put that replaces the items the connection already has.
PutItemOverwritesConnection(st, item) == {r \in st : r.PK # item.PK} \cup {item}

\* PutCommand
PutItem(st, item) == {r \in st : KeyOf(r) # KeyOf(item)} \cup {item}

\* An update that sets LastActivity and leaves the item's TTL as it was.
UpdateItemKeepsTTL(st, connectionId, sessionId, history, isoActivity, ms) ==
  LET old == {r \in st : KeyOf(r) = <<connectionId, sessionId>>}
      base == IF old = {} THEN [NoRow EXCEPT !.PK = connectionId, !.SK = sessionId]
              ELSE CHOOSE r \in old : TRUE
  IN (st \ old) \cup
       {[base EXCEPT !.conversationHistory = history,
                     !.lastActivity = isoActivity,
                     !.LastActivity = Seconds(ms)]}

\* An update that appends the new exchange to the history the item holds,
\* whatever history the caller read.
UpdateItemMerging(st, connectionId, sessionId, history, isoActivity, ms) ==
  LET old == {r \in st : KeyOf(r) = <<connectionId, sessionId>>}
      base == IF old = {} THEN [NoRow EXCEPT !.PK = connectionId, !.SK = sessionId]
              ELSE CHOOSE r \in old : TRUE
  IN (st \ old) \cup
       {[base EXCEPT !.conversationHistory = @ \o <<history[Len(history)]>>,
                     !.lastActivity = isoActivity,
                     !.LastActivity = Seconds(ms),
                     !.TTL = Seconds(ms) + sessionTTL]}

\* updateSession's UpdateCommand: SET the two given fields, LastActivity and
\* TTL on the item with this key; the item is created when it is absent.
UpdateItem(st, connectionId, sessionId, history, isoActivity, ms) ==
  LET old == {r \in st : KeyOf(r) = <<connectionId, sessionId>>}
      base == IF old = {} THEN [NoRow EXCEPT !.PK = connectionId, !.SK = sessionId]
              ELSE CHOOSE r \in old : TRUE
  IN (st \ old) \cup
       {[base EXCEPT !.conversationHistory = history,
                     !.lastActivity = isoActivity,
                     !.LastActivity = Seconds(ms),
                     !.TTL = Seconds(ms) + sessionTTL]}

\* A history that keeps the oldest exchanges instead of the latest.
UpdatedHistoryKeepsOldest(conversationHistory, text, aiResponse, ms) ==
  substring(conversationHistory, HistoryKeep)
    \o <<[user |-> text, assistant |-> aiResponse, timestamp |-> ms]>>

\* handleMessage's updatedHistory.
UpdatedHistory(conversationHistory, text, aiResponse, ms) ==
  sliceLast(conversationHistory, HistoryKeep)
    \o <<[user |-> text, assistant |-> aiResponse, timestamp |-> ms]>>

(* ------------------------------- state --------------------------------- *)

VARIABLES
  store,      \* the session table: a set of items
  inv,        \* the handler invocations in flight, by slot
  nowMs,      \* Date.now()
  nTicks,     \* ticks taken (bounds the clock)
  nEvents,    \* events delivered (bounds the behaviour)
  usedSids,   \* session ids uuidv4 has returned
  missing,    \* required configuration keys that are not set
  apiKey,     \* the credential the Perplexity client was constructed with
  cleanDisc,  \* connections whose last $disconnect removed every item and
              \* for which no createConnection has succeeded since
  pure,       \* a call of a pure function: its input and what it returned
  generic,    \* the GenericChatWidget of a page: its fields and its sockets
  react       \* the React ChatWidget of a page: its state, refs and sockets

vars == <<store, inv, nowMs, nTicks, nEvents, usedSids, missing, apiKey, cleanDisc, pure>>

\* configManager.validateConfig() returns (does not throw).
validateConfig == missing = {}

\* The data of a push: sendErrorMessage's and the reply's.
NoPush == [type |-> "none", message |-> <<>>, companyName |-> "none"]
ErrorPush(message) == [type |-> "error", message |-> <<message>>, companyName |-> "none"]
ResponsePush(aiResponse, companyName) ==
  [type |-> "response", message |-> aiResponse, companyName |-> companyName]

MsgInvalid == "Please provide a valid message"
MsgNoSession == "Session not found. Please refresh and try again."
MsgNoConfig == "Session configuration error. Please refresh and try again."
MsgGeneric == "Sorry, I encountered an error processing your message. Please try again."

NoGen == [threw |-> FALSE, value |-> <<>>]

\* A free slot.  Besides the invocation's position (pc) and the locals it
\* still reads, a slot records what the invocation did: the status it
\* returned, the pushes the transport accepted, the API calls and the kinds
\* of store writes it made, what getSession's query gave (read: "absent",
\* "present" or "failed"), whether a push was answered 410 (gone), whether
\* generateResponse threw (genThrew) and how often it sent updateSession's
\* UpdateCommand (updAttempts), and whether a push failed with an error other
\* than 410 (pushFailed).  sessionId is the session id the message's body
\* carried.
Idle ==
  [pc |-> "idle", route |-> "none", conn |-> "none", routed |-> FALSE,
   verdict |-> "none", text |-> <<>>, session |-> NoRow,
   attempt |-> 0, apiCalls |-> 0, apiLog |-> <<>>, waits |-> <<>>, gen |-> NoGen,
   updHistory |-> <<>>, callMs |-> NoTime,
   pending |-> NoPush, after |-> 0, inCatch |-> FALSE, ctx |-> "none",
   keys |-> {}, status |-> 0, pushes |-> <<>>, pushAttempts |-> 0, wrote |-> {},
   read |-> "none", gone |-> FALSE, genThrew |-> FALSE, updAttempts |-> 0,
   pushFailed |-> FALSE, sessionId |-> NoSid]

(* -------------------- GenericChatWidget (browser) ----------------------- *)

\* No page with the widget is open.
NoWidget == "none"

\* WebSocket objects a widget constructs in a behaviour.
MaxSockets == 3
\* Messages the user types in a behaviour.
MaxTyped == 3

\* config.maxRetries || 3
configMaxRetries == 3

Sockets == 1..MaxSockets

\* this.websocket = null
NoSocket == 0

\* new GenericChatWidget(config).  readyState is the readyState of every
\* WebSocket the widget has constructed ("none": not constructed yet), timers
\* the reconnects setTimeout holds, typed the messages the user has typed
\* (numbered in the order typed), wire the messages a send() has put on an
\* open socket, in the order of the calls.  badUrl: config.websocketUrl is
\* one the WebSocket constructor rejects.
NewGenericChatWidget(badUrl) ==
  [websocket |-> NoSocket, isConnected |-> FALSE, reconnectAttempts |-> 0,
   messageQueue |-> <<>>, readyState |-> [s \in Sockets |-> "none"],
   timers |-> 0, typed |-> 0, wire |-> <<>>, badUrl |-> badUrl]

\* The WebSocket objects constructed so far.
Constructed(readyState) == {s \in DOMAIN readyState : readyState[s] # "none"}

\* scheduleReconnect()
scheduleReconnect(w) ==
  IF w.reconnectAttempts < configMaxRetries
    THEN [w EXCEPT !.reconnectAttempts = @ + 1, !.timers = @ + 1]
    ELSE w

\* connectWebSocket() returns without constructing a WebSocket.
AlreadyOpen(w) ==
  w.websocket # NoSocket /\ w.readyState[w.websocket] = "open"

\* connectWebSocket()
connectWebSocket(w) ==
  IF AlreadyOpen(w) THEN w
  ELSE IF w.badUrl THEN scheduleReconnect(w)
  ELSE LET s == Cardinality(Constructed(w.readyState)) + 1
       IN [w EXCEPT !.websocket = s, !.readyState[s] = "connecting"]

\* connectWebSocket() has a WebSocket left to construct, if it constructs one.
CanConnect(w) ==
  (AlreadyOpen(w) \/ w.badUrl) \/ Cardinality(Constructed(w.readyState)) < MaxSockets

\* processPendingMessages().  this.websocket.send throws InvalidStateError
\* while this.websocket is connecting, which ends the loop with the message
\* already shifted; on a closing or closed socket send discards the data.
RECURSIVE processPendingMessages(_)
processPendingMessages(w) ==
  IF w.messageQueue = <<>> \/ ~w.isConnected THEN w
  ELSE LET message == Head(w.messageQueue)
           shifted == [w EXCEPT !.messageQueue = Tail(@)]
           state   == w.readyState[w.websocket]
       IN IF state = "connecting" THEN shifted
          ELSE IF state = "open"
            THEN processPendingMessages([shifted EXCEPT !.wire = Append(@, message)])
            ELSE processPendingMessages(shifted)

\* websocket.close()
closeSocket(readyState, s) ==
  IF s # NoSocket /\ readyState[s] \in {"connecting", "open"}
    THEN [readyState EXCEPT ![s] = "closing"]
    ELSE readyState

(* ----------------------- React ChatWidget (browser) --------------------- *)

\* WebSocket objects the React widget constructs in a behaviour.
MaxReactSockets == 5

\* maxRetries = 3
propMaxRetries == 3

ReactSockets == 1..MaxReactSockets

\* The first render of <ChatWidget/>.  closureAttempts is reconnectAttempts
\* as handleReconnect reads it: connectWebSocket is memoized on
\* [websocketUrl, companyId], so the onclose of every socket calls the
\* handleReconnect of the render that created it, the first.  timers are the
\* reconnects setTimeout holds, mountTimer the 150 ms timer of the effect.
\* streak counts the sockets a reconnect timer has constructed since the
\* last onopen, late records one constructed after the cleanup ran.
NewChatWidget(production) ==
  [reconnectAttempts |-> 0, closureAttempts |-> 0, isConnected |-> FALSE,
   websocketRef |-> NoSocket, connectingRef |-> FALSE, shouldReconnectRef |-> TRUE,
   readyState |-> [s \in ReactSockets |-> "none"],
   timers |-> 0, mountTimer |-> TRUE, mounted |-> TRUE, production |-> production,
   streak |-> 0, late |-> FALSE]

\* connectWebSocket returns without constructing a WebSocket.
ReactConnectReturns(w) ==
  \/ w.connectingRef
  \/ w.websocketRef # NoSocket /\ w.readyState[w.websocketRef] \in {"open", "connecting"}

\* const connectWebSocket = useCallback(...), websocketUrl set
reactConnectWebSocket(w) ==
  IF ReactConnectReturns(w) THEN w
  ELSE LET s == Cardinality(Constructed(w.readyState)) + 1
       IN [w EXCEPT !.connectingRef = TRUE, !.websocketRef = s,
                    !.readyState[s] = "connecting"]

\* connectWebSocket has a WebSocket left to construct, if it constructs one.
ReactCanConnect(w) ==
  ReactConnectReturns(w) \/ Cardinality(Constructed(w.readyState)) < MaxReactSockets

\* handleReconnect()
handleReconnect(w) ==
  IF w.closureAttempts < propMaxRetries THEN [w EXCEPT !.timers = @ + 1] ELSE w

\* A state setter called on the component: ignored once it has unmounted.
setState(w, field, value) ==
  IF w.mounted THEN [w EXCEPT ![field] = value] ELSE w

\* No pure call is being looked at.
NoPure == [fn |-> "none", stage |-> 0, input |-> <<>>, once |-> <<>>, twice |-> <<>>]

Init ==
  /\ pure = NoPure
  /\ store = {}
  /\ inv = [i \in Invs |-> Idle]
  /\ nowMs = 0
  /\ nTicks = 0
  /\ nEvents = 0
  /\ usedSids = {}
  /\ missing \in {{}, {"websocketApiEndpoint"}}
  /\ apiKey = LiveKey
  /\ cleanDisc = [c \in Conns |-> FALSE]
  /\ generic = NoWidget
  /\ react = NoWidget

\* No invocation has returned without its result being collected.  The
\* platform collects a result as soon as the invocation returns: Retire is
\* the only step taken while a slot is "done".
NoneDone == \A j \in Invs : inv[j].pc # "done"

\* The slot a new invocation takes: the lowest free one.
FreeSlot(i) ==
  /\ NoneDone
  /\ inv[i].pc = "idle"
  /\ \A j \in Invs : j < i => inv[j].pc # "idle"

Begin(route, connectionId) ==
  [Idle EXCEPT !.route = route, !.conn = connectionId]

\* The locals of handleMessage that no later step reads.
Forget(r) ==
  [r EXCEPT !.text = <<>>, !.session = NoRow, !.attempt = 0, !.apiLog = <<>>,
            !.waits = <<>>, !.gen = NoGen, !.updHistory = <<>>, !.callMs = NoTime]

\* return { statusCode }
Finish(r, statusCode) == [r EXCEPT !.pc = "done", !.status = statusCode]

\* The handler's own catch block: an error thrown before routing, or one
\* that a route's function let through.
HandlerCatch(r) == Finish(r, 500)

\* A catch block that goes on with the message instead of giving up.
MessageCatchProceeds(r) == [r EXCEPT !.pc = "session"]

\* handleMessage's catch block: push the generic error, then return 500.  An
\* error thrown inside the catch block itself reaches the handler's.
MessageCatch(r) ==
  IF r.inCatch THEN HandlerCatch(r)
  ELSE [Forget(r) EXCEPT !.pc = "push", !.pending = ErrorPush(MsgGeneric),
                         !.after = 500, !.inCatch = TRUE]

\* An error exit that returns its status without pushing.
SendErrorUnpushed(r, message, statusCode) == Finish(r, statusCode)

\* await sendErrorMessage(...); return { statusCode }
SendError(r, message, statusCode) ==
  [r EXCEPT !.pc = "push", !.pending = ErrorPush(message), !.after = statusCode]

\* A handleMessage that answers a body it cannot parse like an empty text.
ParseThrewBadRequest(r) == SendError(r, MsgInvalid, 400)

\* JSON.parse throws on the body, inside handleMessage's try block.
ParseThrew(r) == MessageCatch(r)

(* ------------------------------- actions ------------------------------- *)

\* handler, route $connect: handleConnection with createConnection's put.
HandleConnection(i, connectionId, company, putOutcome, maxEvents) ==
  /\ FreeSlot(i)
  /\ nEvents < maxEvents
  /\ nEvents' = nEvents + 1
  /\ IF ~validateConfig
       THEN /\ inv' = [inv EXCEPT ![i] = HandlerCatch(Begin("$connect", connectionId))]
            /\ UNCHANGED <<store, usedSids, cleanDisc>>
       ELSE \E sessionId \in Sids \ usedSids :
              LET companyId == validateCompanyId(company)
                  item == NewItem(connectionId, sessionId, nowMs, companyId,
                                  getCompanyConfig(companyId))
                  r == [Begin("$connect", connectionId) EXCEPT !.routed = TRUE]
              IN /\ usedSids' = usedSids \cup {sessionId}
                 /\ IF putOutcome = "ok"
                      THEN /\ store' = PutItem(store, item)
                           /\ cleanDisc' = [cleanDisc EXCEPT ![connectionId] = FALSE]
                           /\ inv' = [inv EXCEPT ![i] =
                                        Finish([r EXCEPT !.wrote = {"put"}], 200)]
                      ELSE /\ inv' = [inv EXCEPT ![i] = Finish(r, 500)]
                           /\ UNCHANGED <<store, cleanDisc>>
  /\ UNCHANGED <<nowMs, nTicks, missing, apiKey, pure, generic, react>>

\* handler, route $disconnect: handleDisconnection up to removeConnection's query.
HandleDisconnection(i, connectionId, maxEvents) ==
  /\ FreeSlot(i)
  /\ nEvents < maxEvents
  /\ nEvents' = nEvents + 1
  /\ inv' = [inv EXCEPT ![i] =
       IF ~validateConfig THEN HandlerCatch(Begin("$disconnect", connectionId))
       ELSE [Begin("$disconnect", connectionId) EXCEPT
               !.routed = TRUE, !.pc = "remove", !.ctx = "disconnect"]]
  /\ UNCHANGED <<store, nowMs, nTicks, usedSids, missing, apiKey, pure, generic, react, cleanDisc>>

\* A default case that reports success for a route it does not know.
HandleUnknownAccepted(i, connectionId, maxEvents) ==
  /\ FreeSlot(i)
  /\ nEvents < maxEvents
  /\ nEvents' = nEvents + 1
  /\ inv' = [inv EXCEPT ![i] =
       IF ~validateConfig THEN HandlerCatch(Begin("unknown", connectionId))
       ELSE Finish([Begin("unknown", connectionId) EXCEPT !.routed = TRUE], 200)]
  /\ UNCHANGED <<store, nowMs, nTicks, usedSids, missing, apiKey, pure, generic, react, cleanDisc>>

\* handler, an unknown route key.
HandleUnknown(i, connectionId, maxEvents) ==
  /\ FreeSlot(i)
  /\ nEvents < maxEvents
  /\ nEvents' = nEvents + 1
  /\ inv' = [inv EXCEPT ![i] =
       IF ~validateConfig THEN HandlerCatch(Begin("unknown", connectionId))
       ELSE Finish([Begin("unknown", connectionId) EXCEPT !.routed = TRUE], 400)]
  /\ UNCHANGED <<store, nowMs, nTicks, usedSids, missing, apiKey, pure, generic, react, cleanDisc>>

\* What handleMessage makes of the body before it reads the session.
Verdict(body) ==
  IF body.json = "invalid" THEN "unparseable"
  ELSE IF ~validateMessage(body).ok THEN "rejected"
  ELSE IF trim(validateMessage(body).text) = <<>> THEN "empty"
  ELSE "valid"

\* handler, route sendMessage or $default: handleMessage up to getSession.
HandleMessage(i, connectionId, body, maxEvents) ==
  /\ FreeSlot(i)
  /\ nEvents < maxEvents
  /\ nEvents' = nEvents + 1
  /\ inv' = [inv EXCEPT ![i] =
       IF ~validateConfig THEN HandlerCatch(Begin("sendMessage", connectionId))
       ELSE LET r == [Begin("sendMessage", connectionId) EXCEPT
                        !.routed = TRUE, !.verdict = Verdict(body)]
            IN CASE r.verdict = "unparseable" -> ParseThrew(r)
                 [] r.verdict = "rejected" -> MessageCatch(r)
                 [] r.verdict = "empty" -> SendError(r, MsgInvalid, 400)
                 [] OTHER -> [r EXCEPT !.pc = "session",
                                       !.text = validateMessage(body).text,
                                       !.sessionId = body.sessionId]]
  /\ UNCHANGED <<store, nowMs, nTicks, usedSids, missing, apiKey, pure, generic, react, cleanDisc>>

\* A getSession that lets the query's error through to handleMessage.
ReadFailedRethrows(r) == MessageCatch(r)

\* getSession's catch block returns null, and handleMessage takes the branch
\* of a session that was not found.
ReadFailed(r) == SendError(r, MsgNoSession, 404)

\* getSession's query returns (or fails: getSession returns null), and
\* handleMessage goes on to its next await.
GetSession(i, outcome) ==
  /\ NoneDone
  /\ inv[i].pc = "session"
  /\ LET r == inv[i]
         sessionData == IF outcome = "ok" THEN getSession(store, r.conn, r.sessionId)
                        ELSE NoRow
         q == [r EXCEPT !.read = IF outcome # "ok" THEN "failed"
                                 ELSE IF sessionData = NoRow THEN "absent"
                                 ELSE "present"]
     IN inv' = [inv EXCEPT ![i] =
          IF outcome # "ok" THEN ReadFailed(q)
          ELSE IF sessionData = NoRow THEN SendError(q, MsgNoSession, 404)
          ELSE IF sessionData.companyConfig = "none" THEN SendError(q, MsgNoConfig, 500)
          ELSE [q EXCEPT !.pc = "generate", !.session = sessionData, !.attempt = 1]]
  /\ UNCHANGED <<store, nowMs, nTicks, nEvents, usedSids, missing, apiKey, pure, generic, react, cleanDisc>>

\* A handleMessage that pushes the reply without persisting it first.
CallUpdateSkipsPersist(r, aiResponse, ms) ==
  [r EXCEPT !.pc = "push",
            !.pending = ResponsePush(aiResponse, ConfigOf(r.session.companyConfig).name),
            !.after = 200]

\* handleMessage after generateResponse returned aiResponse: it builds the
\* updated history and calls updateSession, which reads the clock.
CallUpdate(r, aiResponse, ms) ==
  [r EXCEPT !.pc = "update",
            !.updHistory = UpdatedHistory(r.session.conversationHistory, r.text,
                                          aiResponse, ms),
            !.callMs = ms]

\* One attempt of makeApiRequest inside generateResponse, for a deployment
\* whose API key is not the local-development dummy.
ApiRequest(i, outcome) ==
  /\ NoneDone
  /\ inv[i].pc = "generate"
  /\ ~UsesLocalResponse(apiKey)
  /\ LET r == [inv[i] EXCEPT !.apiCalls = @ + 1, !.apiLog = Append(@, outcome)]
         gen == IF outcome.kind = "ok"
                  THEN [threw |-> FALSE, value |-> trim(outcome.content)]
                  ELSE GenerateCatch(ConfigOf(r.session.companyConfig))
     IN inv' = [inv EXCEPT ![i] =
          IF outcome.kind # "ok" /\ ShouldRetry(r.attempt, ThrownBy(outcome))
            THEN [r EXCEPT !.attempt = @ + 1,
                           !.waits = Append(@, RetryWait(r.attempt))]
          ELSE IF gen.threw THEN MessageCatch([r EXCEPT !.genThrew = TRUE])
          ELSE CallUpdate([r EXCEPT !.gen = gen], gen.value, nowMs)]
  /\ UNCHANGED <<store, nowMs, nTicks, nEvents, usedSids, missing, apiKey, pure, generic, react, cleanDisc>>

\* generateResponse for a client whose key is the dummy key: it returns one
\* of the local-development responses and makes no request.
LocalResponse(i, k) ==
  /\ NoneDone
  /\ inv[i].pc = "generate"
  /\ UsesLocalResponse(apiKey)
  /\ LET r == inv[i]
         gen == [threw |-> FALSE,
                 value |-> getLocalDevelopmentResponse(r.text, ConfigOf(r.session.companyConfig), k)]
     IN inv' = [inv EXCEPT ![i] = CallUpdate([r EXCEPT !.gen = gen], gen.value, nowMs)]
  /\ UNCHANGED <<store, nowMs, nTicks, nEvents, usedSids, missing, apiKey, pure, generic, react, cleanDisc>>

\* An updateSession that logs the error and returns: handleMessage goes on
\* to push the response.
UpdateSwallowed(r) ==
  [Forget(r) EXCEPT
     !.pc = "push",
     !.pending = ResponsePush(r.gen.value, ConfigOf(r.session.companyConfig).name),
     !.after = 200]

\* updateSession's catch block rethrows, and the error reaches handleMessage's
\* catch block.
UpdateThrew(r) == MessageCatch(r)

\* updateSession's UpdateCommand reaches the table (or fails).
UpdateSession(i, outcome) ==
  /\ NoneDone
  /\ inv[i].pc = "update"
  /\ LET r == [inv[i] EXCEPT !.updAttempts = @ + 1]
     IN IF outcome = "ok"
          THEN /\ store' = UpdateItem(store, r.conn, r.session.SessionId,
                                      r.updHistory, r.callMs, r.callMs)
               /\ inv' = [inv EXCEPT ![i] =
                    [Forget(r) EXCEPT
                       !.pc = "push",
                       !.pending = ResponsePush(r.gen.value,
                                                ConfigOf(r.session.companyConfig).name),
                       !.after = 200,
                       !.wrote = @ \cup {"update"}]]
          ELSE /\ inv' = [inv EXCEPT ![i] = UpdateThrew(r)]
               /\ UNCHANGED store
  /\ UNCHANGED <<nowMs, nTicks, nEvents, usedSids, missing, apiKey, pure, generic, react, cleanDisc>>

\* A sendMessage that treats every push error as a connection that is gone.
PushThrewCleansUp(r) == [r EXCEPT !.pc = "remove", !.ctx = "push"]

\* sendMessage's catch block rethrows an error that is not a 410, and the
\* error reaches handleMessage's catch block.
PushThrew(r) == MessageCatch(r)

\* sendMessage: the PostToConnection call is accepted ("ok"), answered 410
\* ("gone": sendMessage goes on to removeConnection) or fails otherwise.
SendMessage(i, outcome) ==
  /\ NoneDone
  /\ inv[i].pc = "push"
  /\ LET r == [inv[i] EXCEPT !.pushAttempts = @ + 1]
     IN inv' = [inv EXCEPT ![i] =
          CASE outcome = "ok" -> Finish([r EXCEPT !.pushes = Append(@, r.pending)], r.after)
            [] outcome = "gone" -> [r EXCEPT !.pc = "remove", !.ctx = "push", !.gone = TRUE]
            [] OTHER -> PushThrew([r EXCEPT !.pushFailed = TRUE])]
  /\ UNCHANGED <<store, nowMs, nTicks, nEvents, usedSids, missing, apiKey, pure, generic, react, cleanDisc>>

\* A sendMessage that rethrows the 410 once it has cleaned up.
RemoveReturnedSurfaces(r) ==
  IF r.ctx = "disconnect" THEN Finish(r, 200) ELSE MessageCatch(r)

\* removeConnection returned to its caller: handleDisconnection returns 200,
\* sendMessage returns to handleMessage, which returns its status.
RemoveReturned(r) ==
  IF r.ctx = "disconnect" THEN Finish(r, 200) ELSE Finish(r, r.after)

\* removeConnection threw: handleDisconnection's catch returns 200, and
\* sendMessage lets the error through to handleMessage.
RemoveThrew(r) ==
  IF r.ctx = "disconnect" THEN Finish(r, 200) ELSE MessageCatch(r)

\* removeConnection's query.
RemoveQuery(i, outcome) ==
  /\ NoneDone
  /\ inv[i].pc = "remove"
  /\ LET r == inv[i]
     IN inv' = [inv EXCEPT ![i] =
          IF outcome = "ok"
            THEN [r EXCEPT !.pc = "delete",
                           !.keys = {KeyOf(x) : x \in RowsOf(store, r.conn)}]
            ELSE RemoveThrew(r)]
  /\ UNCHANGED <<store, nowMs, nTicks, nEvents, usedSids, missing, apiKey, pure, generic, react, cleanDisc>>

\* removeConnection's deletes (Promise.all): those in failed fail, the others
\* take effect; one failure makes removeConnection throw.
RemoveDelete(i, failed) ==
  /\ NoneDone
  /\ inv[i].pc = "delete"
  /\ failed \subseteq inv[i].keys
  /\ LET r == inv[i]
         gone == r.keys \ failed
         w == [r EXCEPT !.wrote = IF gone = {} THEN @ ELSE @ \cup {"delete"}]
     IN /\ store' = {x \in store : KeyOf(x) \notin gone}
        /\ inv' = [inv EXCEPT ![i] =
             IF failed = {} THEN RemoveReturned(w) ELSE RemoveThrew(w)]
        /\ cleanDisc' = IF failed = {} /\ r.ctx = "disconnect"
                             /\ RowsOf(store', r.conn) = {}
                          THEN [cleanDisc EXCEPT ![r.conn] = TRUE]
                          ELSE cleanDisc
  /\ UNCHANGED <<nowMs, nTicks, nEvents, usedSids, missing, apiKey, pure, generic, react>>

\* The platform has the invocation's result; the slot is free again.
Retire(i) ==
  /\ inv[i].pc = "done"
  /\ inv' = [inv EXCEPT ![i] = Idle]
  /\ UNCHANGED <<store, nowMs, nTicks, nEvents, usedSids, missing, apiKey, pure, generic, react, cleanDisc>>

\* Time passes.
Tick ==
  /\ NoneDone
  /\ nTicks < MaxTicks
  /\ nTicks' = nTicks + 1
  /\ nowMs' = nowMs + TickMs
  /\ UNCHANGED <<store, inv, nEvents, usedSids, missing, apiKey, pure, generic, react, cleanDisc>>

\* A long pause: more than the session window passes at once.
Lapse ==
  /\ NoneDone
  /\ nTicks < MaxTicks
  /\ nTicks' = nTicks + 1
  /\ nowMs' = nowMs + (sessionTTL + 1) * 1000
  /\ UNCHANGED <<store, inv, nEvents, usedSids, missing, apiKey, pure, generic, react, cleanDisc>>

\* cleanupExpiredSessions' catch block logs the error of the scan or of a
\* delete and returns; the handler goes on to return 200.
CleanupCaught(r) == Finish(r, 200)

\* cleanupExpiredSessions' scan: the items with TTL < :now.
Expired(st, ms) == {r \in st : r.TTL < Seconds(ms)}

\* The cleanup handler up to cleanupExpiredSessions' deletes: the scan
\* returns the expired items, or fails and the error is logged and dropped.
SweepScan(i, scanOutcome, maxEvents) ==
  /\ FreeSlot(i)
  /\ nEvents < maxEvents
  /\ nEvents' = nEvents + 1
  /\ inv' = [inv EXCEPT ![i] =
       IF scanOutcome = "ok"
         THEN [Begin("sweep", "none") EXCEPT
                 !.pc = "sweep",
                 !.keys = {KeyOf(x) : x \in Expired(store, nowMs)}]
         ELSE CleanupCaught(Begin("sweep", "none"))]
  /\ UNCHANGED <<store, nowMs, nTicks, usedSids, missing, apiKey, pure, generic, react, cleanDisc>>

\* cleanupExpiredSessions' deletes, by key: those in failed fail, the others
\* take effect; a failure is logged and dropped, and the handler returns 200.
SweepDelete(i, failed) ==
  /\ NoneDone
  /\ inv[i].pc = "sweep"
  /\ failed \subseteq inv[i].keys
  /\ LET r == inv[i]
         gone == r.keys \ failed
     IN /\ store' = {x \in store : KeyOf(x) \notin gone}
        /\ inv' = [inv EXCEPT ![i] =
             LET w == [r EXCEPT !.wrote = IF gone = {} THEN @ ELSE @ \cup {"delete"}]
             IN IF failed = {} THEN Finish(w, 200) ELSE CleanupCaught(w)]
  /\ UNCHANGED <<nowMs, nTicks, nEvents, usedSids, missing, apiKey, pure, generic, react, cleanDisc>>

(* ----------------------------- environments ---------------------------- *)

\* Tenant ids the connect events carry; none is a name of Object.prototype.
Companies == {<<"V", "a", "n", "g", "u", "a", "r", "d", "!", "!">>, <<"a", "c", "m", "e">>}

Hello == <<"h", "i">>
LongText == [k \in 1..(MaxTextLen + 1) |-> "a"]

Bodies ==
  { Body("invalid", "absent", <<>>, 0),
    Body("null", "absent", <<>>, 0),
    Body("object", "absent", <<>>, 0),
    Body("object", "number", <<>>, 0),
    Body("object", "string", LongText, 0),
    Body("object", "string", <<"e", "v", "a", "l", "(">>, 0),
    Body("object", "string", <<" ", " ">>, 0),
    Body("object", "string", <<"<", ">">>, 0),
    Body("object", "string", Hello, 0) }

IoOutcomes == {"ok", "fail"}
PushOutcomes == {"ok", "gone", "fail"}
ApiOutcomes ==
  {ApiOk(<<" ", "o", "k">>), ApiMalformed, ApiError(503, "none"), ApiError(401, "none"),
   ApiError(0, "timeout")}

\* One invocation at a time (slot 1), any events, every failure of the
\* store, the transport and the API; the clock stands still.
Next ==
  \/ \E c \in Conns, company \in Companies, o \in IoOutcomes :
       HandleConnection(1, c, company, o, MaxEvents)
  \/ \E c \in Conns : HandleDisconnection(1, c, MaxEvents)
  \/ \E c \in Conns : HandleUnknown(1, c, MaxEvents)
  \/ \E c \in Conns, b \in Bodies : HandleMessage(1, c, b, MaxEvents)
  \/ \E o \in IoOutcomes : GetSession(1, o)
  \/ \E o \in ApiOutcomes : ApiRequest(1, o)
  \/ \E o \in IoOutcomes : UpdateSession(1, o)
  \/ \E o \in PushOutcomes : SendMessage(1, o)
  \/ \E o \in IoOutcomes : RemoveQuery(1, o)
  \/ \E f \in SUBSET inv[1].keys : RemoveDelete(1, f)
  \/ Retire(1)

Spec == Init /\ [][Next]_vars

\* One invocation at a time and nothing fails: a long conversation.
NextLong ==
  \/ \E c \in Conns : HandleConnection(1, c, DefaultCompany, "ok", MaxLongEvents)
  \/ \E c \in Conns : HandleDisconnection(1, c, MaxLongEvents)
  \/ \E c \in Conns : HandleMessage(1, c, Body("object", "string", Hello, 0), MaxLongEvents)
  \/ GetSession(1, "ok")
  \/ ApiRequest(1, ApiOk(<<" ", "o", "k">>))
  \/ UpdateSession(1, "ok")
  \/ SendMessage(1, "ok")
  \/ RemoveQuery(1, "ok")
  \/ RemoveDelete(1, {})
  \/ Retire(1)

SpecLong == Init /\ [][NextLong]_vars

\* One invocation at a time and nothing fails: a long conversation whose
\* messages carry one of two texts.
Howdy == <<"y", "o">>

NextHistory ==
  \/ \E c \in Conns : HandleConnection(1, c, DefaultCompany, "ok", MaxHistoryEvents)
  \/ \E c \in Conns, t \in {Hello, Howdy} :
       HandleMessage(1, c, Body("object", "string", t, 0), MaxHistoryEvents)
  \/ GetSession(1, "ok")
  \/ ApiRequest(1, ApiOk(<<" ", "o", "k">>))
  \/ UpdateSession(1, "ok")
  \/ SendMessage(1, "ok")
  \/ Retire(1)

SpecHistory == Init /\ [][NextHistory]_vars

\* One invocation at a time and nothing fails; the messages carry no
\* sessionId or any session id, of this connection's items or of none.
NextSid ==
  \/ \E c \in Conns : HandleConnection(1, c, DefaultCompany, "ok", MaxSidEvents)
  \/ \E c \in Conns, sid \in Sids \cup {NoSid} :
       HandleMessage(1, c, Body("object", "string", Hello, sid), MaxSidEvents)
  \/ GetSession(1, "ok")
  \/ ApiRequest(1, ApiOk(<<" ", "o", "k">>))
  \/ UpdateSession(1, "ok")
  \/ SendMessage(1, "ok")
  \/ Retire(1)

SpecSid == Init /\ [][NextSid]_vars

\* The cleanup handler with no other invocation beside it: connects and
\* sweeps whose scan or deletes may fail, one after another, the clock moving
\* between them.
NextSweepAlone ==
  \/ \E c \in Conns : HandleConnection(1, c, DefaultCompany, "ok", MaxAloneEvents)
  \/ \E o \in IoOutcomes : SweepScan(1, o, MaxAloneEvents)
  \/ \E failed \in SUBSET inv[1].keys : SweepDelete(1, failed)
  \/ Retire(1)
  \/ inv[1].pc = "idle" /\ Tick
  \/ inv[1].pc = "idle" /\ Lapse

SpecSweepAlone == Init /\ [][NextSweepAlone]_vars

\* Up to MaxInflight invocations at once while time passes; the store and
\* the API answer, the transport accepts a push or reports the connection gone.
NextRace ==
  \/ \E i \in Invs, c \in Conns : HandleConnection(i, c, DefaultCompany, "ok", MaxRaceEvents)
  \/ \E i \in Invs, c \in Conns : HandleDisconnection(i, c, MaxRaceEvents)
  \/ \E i \in Invs, c \in Conns :
       HandleMessage(i, c, Body("object", "string", Hello, 0), MaxRaceEvents)
  \/ \E i \in Invs : GetSession(i, "ok")
  \/ \E i \in Invs : ApiRequest(i, ApiOk(<<" ", "o", "k">>))
  \/ \E i \in Invs : UpdateSession(i, "ok")
  \/ \E i \in Invs, o \in {"ok", "gone"} : SendMessage(i, o)
  \/ \E i \in Invs : RemoveQuery(i, "ok")
  \/ \E i \in Invs : RemoveDelete(i, {})
  \/ \E i \in Invs : Retire(i)
  \/ Tick

SpecRace == Init /\ [][NextRace]_vars

\* Up to MaxInflight invocations at once, the cleanup handler among them,
\* while the clock ticks and lapses; the store, the API and the transport
\* answer.
NextSweep ==
  \/ \E i \in Invs, c \in Conns : HandleConnection(i, c, DefaultCompany, "ok", MaxSweepEvents)
  \/ \E i \in Invs, c \in Conns : HandleDisconnection(i, c, MaxSweepEvents)
  \/ \E i \in Invs, c \in Conns :
       HandleMessage(i, c, Body("object", "string", Hello, 0), MaxSweepEvents)
  \/ \E i \in Invs, o \in IoOutcomes : SweepScan(i, o, MaxSweepEvents)
  \/ \E i \in Invs : SweepDelete(i, {})
  \/ \E i \in Invs : GetSession(i, "ok")
  \/ \E i \in Invs : ApiRequest(i, ApiOk(<<" ", "o", "k">>))
  \/ \E i \in Invs : UpdateSession(i, "ok")
  \/ \E i \in Invs : SendMessage(i, "ok")
  \/ \E i \in Invs : RemoveQuery(i, "ok")
  \/ \E i \in Invs : RemoveDelete(i, {})
  \/ \E i \in Invs : Retire(i)
  \/ Tick
  \/ Lapse

SpecSweep == Init /\ [][NextSweep]_vars

\* One invocation at a time in a deployment whose API key is the dummy key or
\* another key; the store and the transport answer, the API answers or fails.
InitOffline ==
  /\ pure = NoPure
  /\ store = {}
  /\ inv = [i \in Invs |-> Idle]
  /\ nowMs = 0
  /\ nTicks = 0
  /\ nEvents = 0
  /\ usedSids = {}
  /\ missing = {}
  /\ apiKey \in {DummyKey, LiveKey}
  /\ cleanDisc = [c \in Conns |-> FALSE]
  /\ generic = NoWidget
  /\ react = NoWidget

NextOffline ==
  \/ \E c \in Conns, company \in Companies : HandleConnection(1, c, company, "ok", MaxEvents)
  \/ \E c \in Conns, b \in Bodies : HandleMessage(1, c, b, MaxEvents)
  \/ GetSession(1, "ok")
  \/ \E o \in ApiOutcomes : ApiRequest(1, o)
  \/ \E k \in 1..4 : LocalResponse(1, k)
  \/ UpdateSession(1, "ok")
  \/ SendMessage(1, "ok")
  \/ Retire(1)

SpecOffline == InitOffline /\ [][NextOffline]_vars

(* ------------------------- calls of pure functions --------------------- *)

handlerVars ==
  <<store, inv, nowMs, nTicks, nEvents, usedSids, missing, apiKey, cleanDisc, generic, react>>

\* The strings made of at most n of the given pieces.
RECURSIVE Concats(_, _)
Concats(chunks, n) ==
  IF n = 0 THEN {<<>>}
  ELSE Concats(chunks, n - 1) \cup {t \o c : t \in Concats(chunks, n - 1), c \in chunks}

TextChunks ==
  { <<"a">>, <<" ">>, <<"<">>, <<":">>, <<"(">>,
    <<"s", "c", "r">>, <<"i", "p", "t">>,
    <<"s", "c", "r", "i", "p", "t">>,
    <<"j", "a", "v", "a", "s", "c", "r", "i", "p", "t">>,
    <<"e", "v", "a", "l">> }

Texts == Concats(TextChunks, MaxChunks)

IdChunks == {<<"V">>, <<"a">>, <<"!">>, <<"-">>, <<"1">>, <<"_">>}

LongId == [k \in 1..60 |-> IF k = 1 THEN "V" ELSE "a"]

\* Tenant ids: <<>> is a missing id, a value that is no string, or "".
Ids ==
  Concats(IdChunks, MaxChunks)
    \cup Companies \cup {DefaultCompany, LongId, IdConstructor, IdProto}

\* Texts at the length limit: exactly the limit, one over it only by a
\* leading space that trim would remove, and one over it only by a character
\* that sanitizeText would remove.
FullText == [k \in 1..MaxTextLen |-> "a"]
BoundaryTexts == {FullText, <<" ">> \o FullText, <<">">> \o FullText, LongText}

\* Exchange k of a stored history: its texts are k characters long.
Exchange(k) ==
  [user |-> [j \in 1..k |-> "q"], assistant |-> [j \in 1..k |-> "a"], timestamp |-> k]

\* The histories of 0 to MaxContextHistory exchanges.
ContextHistories == {[k \in 1..n |-> Exchange(k)] : n \in 0..MaxContextHistory}

SystemPrompt == <<"S">>

PureCall(fn, input) ==
  [fn |-> fn, stage |-> 0, input |-> input, once |-> <<>>, twice |-> <<>>]

PureCalls ==
  {PureCall("validateMessage", b) : b \in Bodies}
    \cup {PureCall("validateMessage", Body("object", "string", t, 0)) :
            t \in Texts \cup BoundaryTexts}
    \cup {PureCall("validateCompanyId", id) : id \in Ids}
    \cup {PureCall("getCompanyConfig", id) : id \in Ids}
    \cup {PureCall("buildMessageContext", [history |-> h, userMessage |-> m]) :
            h \in ContextHistories, m \in {Hello, Howdy}}

InitPure ==
  /\ pure \in PureCalls
  /\ store = {}
  /\ inv = [i \in Invs |-> Idle]
  /\ nowMs = 0
  /\ nTicks = 0
  /\ nEvents = 0
  /\ usedSids = {}
  /\ missing = {}
  /\ apiKey = LiveKey
  /\ cleanDisc = [c \in Conns |-> FALSE]
  /\ generic = NoWidget
  /\ react = NoWidget

\* SecurityManager.validateMessage(message)
CallValidateMessage ==
  /\ pure.fn = "validateMessage" /\ pure.stage = 0
  /\ pure' = [pure EXCEPT !.stage = 1, !.once = validateMessage(pure.input)]
  /\ UNCHANGED handlerVars

\* SecurityManager.validateMessage applied to the message it returned:
\* { ...message, text: sanitized }.
CallValidateMessageAgain ==
  /\ pure.fn = "validateMessage" /\ pure.stage = 1 /\ pure.once.ok
  /\ pure' = [pure EXCEPT
                !.stage = 2,
                !.twice = validateMessage([pure.input EXCEPT !.text = pure.once.text])]
  /\ UNCHANGED handlerVars

\* SecurityManager.validateCompanyId(companyId)
CallValidateCompanyId ==
  /\ pure.fn = "validateCompanyId" /\ pure.stage = 0
  /\ pure' = [pure EXCEPT !.stage = 1, !.once = validateCompanyId(pure.input)]
  /\ UNCHANGED handlerVars

\* configManager.getCompanyConfig(companyId), companyId a string
CallGetCompanyConfig ==
  /\ pure.fn = "getCompanyConfig" /\ pure.stage = 0
  /\ pure' = [pure EXCEPT !.stage = 1, !.once = getCompanyConfig(pure.input)]
  /\ UNCHANGED handlerVars

\* perplexityService.buildMessageContext(systemPrompt, history, userMessage)
CallBuildMessageContext ==
  /\ pure.fn = "buildMessageContext" /\ pure.stage = 0
  /\ pure' = [pure EXCEPT
                !.stage = 1,
                !.once = buildMessageContext(SystemPrompt, pure.input.history,
                                             pure.input.userMessage)]
  /\ UNCHANGED handlerVars

NextPure ==
  \/ CallValidateMessage
  \/ CallValidateMessageAgain
  \/ CallValidateCompanyId
  \/ CallGetCompanyConfig
  \/ CallBuildMessageContext

SpecPure == InitPure /\ [][NextPure]_vars

(* --------------------------- the chat widgets -------------------------- *)

serverVars == <<store, inv, nowMs, nTicks, nEvents, usedSids, missing, apiKey, cleanDisc, pure>>

\* A page with a GenericChatWidget and no traffic yet.
InitGeneric ==
  /\ pure = NoPure
  /\ store = {}
  /\ inv = [i \in Invs |-> Idle]
  /\ nowMs = 0
  /\ nTicks = 0
  /\ nEvents = 0
  /\ usedSids = {}
  /\ missing = {}
  /\ apiKey = LiveKey
  /\ cleanDisc = [c \in Conns |-> FALSE]
  /\ generic \in {NewGenericChatWidget(badUrl) : badUrl \in BOOLEAN}
  /\ react = NoWidget

\* openChat()
OpenChat ==
  /\ ~generic.isConnected => CanConnect(generic)
  /\ generic' = IF generic.isConnected THEN generic ELSE connectWebSocket(generic)
  /\ UNCHANGED <<serverVars, react>>

\* sendMessage(), the input holding a text that is not blank
GenericSendMessage ==
  /\ generic.typed < MaxTyped
  /\ LET message == generic.typed + 1
         w == [generic EXCEPT !.typed = message]
     IN IF w.isConnected /\ w.readyState[w.websocket] = "open"
          THEN generic' = [w EXCEPT !.wire = Append(@, message)]
          ELSE LET queued == [w EXCEPT !.messageQueue = Append(@, message)]
               IN /\ CanConnect(queued)
                  /\ generic' = connectWebSocket(queued)
  /\ UNCHANGED <<serverVars, react>>

\* websocket.onopen of socket s
GenericOnOpen(s) ==
  /\ generic.readyState[s] = "connecting"
  /\ generic' = processPendingMessages(
                  [generic EXCEPT !.readyState[s] = "open", !.isConnected = TRUE,
                                  !.reconnectAttempts = 0])
  /\ UNCHANGED <<serverVars, react>>

\* websocket.onclose of socket s, event.code = code (onerror, which may come
\* first, changes the status line only)
GenericOnClose(s, code) ==
  /\ generic.readyState[s] \in {"connecting", "open", "closing"}
  /\ LET w == [generic EXCEPT !.readyState[s] = "closed", !.isConnected = FALSE]
     IN generic' = IF code # 1000 THEN scheduleReconnect(w) ELSE w
  /\ UNCHANGED <<serverVars, react>>

\* The callback scheduleReconnect gave to setTimeout runs.
GenericReconnectTimer ==
  /\ generic.timers > 0
  /\ LET w == [generic EXCEPT !.timers = @ - 1]
     IN /\ CanConnect(w)
        /\ generic' = connectWebSocket(w)
  /\ UNCHANGED <<serverVars, react>>

\* The visibilitychange listener, the page visible again: reconnectWebSocket()
VisibilityChange ==
  /\ generic.websocket # NoSocket
  /\ generic.readyState[generic.websocket] # "open"
  /\ LET w == [generic EXCEPT !.readyState = closeSocket(@, generic.websocket),
                              !.reconnectAttempts = 0]
     IN /\ CanConnect(w)
        /\ generic' = connectWebSocket(w)
  /\ UNCHANGED <<serverVars, react>>

NextGeneric ==
  \/ OpenChat
  \/ GenericSendMessage
  \/ \E s \in Sockets : GenericOnOpen(s)
  \/ \E s \in Sockets, code \in {1000, 1006} : GenericOnClose(s, code)
  \/ GenericReconnectTimer
  \/ VisibilityChange

SpecGeneric == InitGeneric /\ [][NextGeneric]_vars

\* A page that has rendered <ChatWidget/> and run its effect.
InitReact ==
  /\ pure = NoPure
  /\ store = {}
  /\ inv = [i \in Invs |-> Idle]
  /\ nowMs = 0
  /\ nTicks = 0
  /\ nEvents = 0
  /\ usedSids = {}
  /\ missing = {}
  /\ apiKey = LiveKey
  /\ cleanDisc = [c \in Conns |-> FALSE]
  /\ generic = NoWidget
  /\ react \in {NewChatWidget(production) : production \in BOOLEAN}

\* The 150 ms timer of the effect runs: connectWebSocket()
MountTimer ==
  /\ react.mountTimer
  /\ LET w == [react EXCEPT !.mountTimer = FALSE]
     IN /\ ReactCanConnect(w)
        /\ react' = reactConnectWebSocket(w)
  /\ UNCHANGED <<serverVars, generic>>

\* ws.onopen of socket s
ReactOnOpen(s) ==
  /\ react.readyState[s] = "connecting"
  /\ react' = setState(
                setState([react EXCEPT !.readyState[s] = "open",
                                       !.connectingRef = FALSE, !.streak = 0],
                         "isConnected", TRUE),
                "reconnectAttempts", 0)
  /\ UNCHANGED <<serverVars, generic>>

\* ws.onclose of socket s (ws.onerror, which may come first in the same
\* task, makes the first two of its assignments)
ReactOnClose(s) ==
  /\ react.readyState[s] \in {"connecting", "open", "closing"}
  /\ LET w == setState([react EXCEPT !.readyState[s] = "closed",
                                     !.connectingRef = FALSE],
                       "isConnected", FALSE)
     IN react' = IF w.shouldReconnectRef THEN handleReconnect(w) ELSE w
  /\ UNCHANGED <<serverVars, generic>>

\* The callback handleReconnect gave to setTimeout runs.
ReactReconnectTimer ==
  /\ react.timers > 0
  /\ LET w == setState([react EXCEPT !.timers = @ - 1],
                       "reconnectAttempts", react.reconnectAttempts + 1)
         constructs == ~ReactConnectReturns(w)
     IN /\ ReactCanConnect(w)
        /\ react' = [reactConnectWebSocket(w) EXCEPT
                       !.streak = IF constructs THEN @ + 1 ELSE @,
                       !.late = @ \/ (constructs /\ ~w.mounted)]
  /\ UNCHANGED <<serverVars, generic>>

\* The cleanup of the effect: the component unmounts.
Unmount ==
  /\ react.mounted
  /\ react' = [react EXCEPT
                 !.shouldReconnectRef = FALSE,
                 !.readyState = IF react.production
                                  THEN closeSocket(@, react.websocketRef) ELSE @,
                 !.mountTimer = FALSE,
                 !.mounted = FALSE]
  /\ UNCHANGED <<serverVars, generic>>

NextReact ==
  \/ MountTimer
  \/ \E s \in ReactSockets : ReactOnOpen(s)
  \/ \E s \in ReactSockets : ReactOnClose(s)
  \/ ReactReconnectTimer
  \/ Unmount

SpecReact == InitReact /\ [][NextReact]_vars

(* ------------------------------- claims -------------------------------- *)

Done(i) == inv[i].pc = "done"

\* A message invocation that handleMessage handled and has returned.
MessageDone(i) == Done(i) /\ inv[i].route = "sendMessage" /\ inv[i].routed

\* The transport accepted every push the invocation attempted.
PushesAccepted(i) == inv[i].pushAttempts = Len(inv[i].pushes)

\* C1: once a $disconnect for c has been handled with its query and deletes
\* succeeding, and until a createConnection for c succeeds, the table holds
\* no item of c and getSession(c) finds none.
C1_DisconnectCleanup ==
  \A c \in Conns :
    cleanDisc[c] => RowsOf(store, c) = {} /\ QueryLatest(store, c) = NoRow

\* C2: the conversationHistory of every stored item has at most 8 entries.
C2_HistoryAtMost8 == \A r \in store : Len(r.conversationHistory) <= 8

\* C3: a message event that has returned, the transport having accepted every
\* push it was given, delivered exactly one push: a 'response' if and only if
\* it returned 200, an 'error' otherwise.
C3_OnePushPerMessage ==
  \A i \in Invs :
    (Done(i) /\ inv[i].route = "sendMessage" /\ PushesAccepted(i)) =>
      /\ Len(inv[i].pushes) = 1
      /\ (inv[i].pushes[1].type = "response") <=> (inv[i].status = 200)
      /\ inv[i].status # 200 => inv[i].pushes[1].type = "error"

Contains(segments, x) == \E k \in 1..Len(segments) : segments[k] = x

\* generateResponse has returned to handleMessage after a last attempt that
\* failed.
GenerateFailed(i) ==
  /\ inv[i].pc = "update"
  /\ inv[i].apiLog[Len(inv[i].apiLog)].kind # "ok"

\* C4: generateResponse never throws to handleMessage; when its last attempt
\* failed it returns the fallback of the session's tenant, which contains the
\* tenant's first url (when it has one) and its display name.
C4_FallbackNotThrow ==
  \A i \in Invs :
    /\ ~inv[i].genThrew
    /\ GenerateFailed(i) =>
         LET companyConfig == ConfigOf(inv[i].session.companyConfig)
             aiResponse == inv[i].gen.value
         IN /\ aiResponse = getFallbackResponse(companyConfig)
            /\ companyConfig.urls # <<>> => Contains(aiResponse, companyConfig.urls[1])
            /\ Contains(aiResponse, companyConfig.name)
            /\ inv[i].updHistory[Len(inv[i].updHistory)].assistant = aiResponse

C4_Witness ==
  \E i \in Invs :
    /\ GenerateFailed(i)
    /\ inv[i].session.companyConfig = "vanguard"
    /\ Contains(inv[i].gen.value, "https://investor.vanguard.com")

\* Every attempt generateResponse made failed retryably.
AllRetryable(i) ==
  \A k \in 1..Len(inv[i].apiLog) :
    inv[i].apiLog[k].kind # "ok" /\ isRetryableError(ThrownBy(inv[i].apiLog[k]))

\* C5: an invocation calls the completion API at most 3 times, and exactly 3
\* times when every attempt failed retryably.
C5_RetryCeiling ==
  \A i \in Invs :
    /\ inv[i].apiCalls <= 3
    /\ (inv[i].pc = "update" /\ AllRetryable(i)) => inv[i].apiCalls = 3

C5_Witness ==
  \E i \in Invs : inv[i].pc = "update" /\ AllRetryable(i) /\ inv[i].apiCalls = 3

\* A message with valid text whose getSession query found no item has returned.
NoSessionDone(i) ==
  MessageDone(i) /\ inv[i].verdict = "valid" /\ inv[i].read = "absent"

C7_DisconnectAlways200 ==
  \A i \in Invs : (Done(i) /\ inv[i].route = "$disconnect") => inv[i].status = 200

\* C8: a message whose payload validateMessage rejects returns 400 and, the
\* transport accepting pushes, is answered by one 'error' push.
C8_Rejected400 ==
  \A i \in Invs :
    (MessageDone(i) /\ inv[i].verdict = "rejected" /\ PushesAccepted(i)) =>
      /\ inv[i].status = 400
      /\ Len(inv[i].pushes) = 1
      /\ inv[i].pushes[1].type = "error"

\* C9 as stated: a message whose payload validateMessage rejects calls the
\* API never and writes nothing to the store.
C9_RejectedNoEffect ==
  \A i \in Invs :
    inv[i].verdict = "rejected" => inv[i].apiCalls = 0 /\ inv[i].wrote = {}

\* C9 amended: such a message calls the API never and neither puts nor
\* updates an item; it deletes the connection's items only when its error
\* push was answered 410.
C9_RejectedNoEffectUnlessGone ==
  \A i \in Invs :
    inv[i].verdict = "rejected" =>
      /\ inv[i].apiCalls = 0
      /\ inv[i].read = "none"
      /\ inv[i].wrote \subseteq {"delete"}
      /\ inv[i].wrote # {} => inv[i].gone

C9_Witness ==
  \E i \in Invs :
    /\ MessageDone(i) /\ inv[i].verdict = "rejected"
    /\ inv[i].status = 500 /\ Len(inv[i].pushes) = 1
    /\ RowsOf(store, inv[i].conn) # {}

\* The items that a step changed in place: before and after.
Changed(r, q) == r \in store /\ q \in store' /\ KeyOf(r) = KeyOf(q) /\ r # q

\* C10 as stated: an updateSession that succeeds on an existing item leaves
\* its TTL strictly greater than before.
C10_TTLStrictlyGreater ==
  [][\A r \in store : \A q \in store' : Changed(r, q) => q.TTL > r.TTL]_vars

\* C10 amended: after it the item's TTL is the seconds updateSession read
\* from the clock plus 3600; that is strictly greater than before exactly
\* when the reading is later than the item's previous LastActivity, equal
\* when both fall in the same second, and smaller when another invocation
\* with a later reading wrote first.
C10_TTLFromReading ==
  [][\A r \in store : \A q \in store' :
       Changed(r, q) =>
         \E i \in Invs :
           /\ inv[i].pc = "update" /\ inv'[i].pc = "push"
           /\ q.TTL = Seconds(inv[i].callMs) + 3600
           /\ (q.TTL > r.TTL) <=> (Seconds(inv[i].callMs) > r.LastActivity)
           /\ (q.TTL = r.TTL) <=> (Seconds(inv[i].callMs) = r.LastActivity)]_vars

C10_Witness ==
  \E r \in store :
    r.CreatedAt # NoTime /\ r.lastActivity # NoTime /\ r.TTL > r.CreatedAt + 3600

\* C11: every stored item's TTL is its LastActivity plus 3600 seconds.
C11_TTLIsActivityPlusWindow == \A r \in store : r.TTL = r.LastActivity + 3600

C11_Witness ==
  \E r \in store : r.LastActivity > r.CreatedAt /\ r.CreatedAt # NoTime /\ r.TTL = r.LastActivity + 3600

\* Items of c that have not expired at the clock's reading.
Live(c) == {r \in RowsOf(store, c) : r.TTL >= Seconds(nowMs)}

\* C12: there is at most one non-expired item per connection.
C12_OneLiveSession == \A c \in Conns : Cardinality(Live(c)) <= 1

\* C13: a getSession whose query succeeds returns, when the connection has
\* items, one whose CreatedAt is the greatest among them, and null exactly
\* when it has none.
C13_LatestCreated ==
  [][\A i \in Invs :
       (inv[i].pc = "session" /\ inv'[i].read # "failed" /\ inv'[i].pc # "session") =>
         /\ (inv'[i].read = "absent") <=> (RowsOf(store, inv[i].conn) = {})
         /\ inv'[i].pc = "generate" =>
              \A q \in RowsOf(store, inv[i].conn) :
                 q.CreatedAt <= inv'[i].session.CreatedAt]_vars

\* C14: validating the message validateMessage returned accepts it and
\* returns the same text.
C14_ValidateIdempotent ==
  (pure.fn = "validateMessage" /\ pure.stage = 2) =>
    pure.twice.ok /\ pure.twice.text = pure.once.text

IsLowerAlnumHyphen(c) == IsAlnumHyphen(c) /\ c \notin DOMAIN UpperToLower

\* C15: validateCompanyId returns at most 50 characters, each a lower-case
\* letter, a digit or a hyphen; "Vanguard!!" gives "vanguard"; an input that
\* is missing or sanitizes to the empty string gives the default tenant id.
C15_CompanyIdSafeOrDefault ==
  (pure.fn = "validateCompanyId" /\ pure.stage = 1) =>
    /\ Len(pure.once) <= 50
    /\ \A k \in 1..Len(pure.once) : IsLowerAlnumHyphen(pure.once[k])
    /\ pure.input = <<"V", "a", "n", "g", "u", "a", "r", "d", "!", "!">> =>
         pure.once = <<"v", "a", "n", "g", "u", "a", "r", "d">>
    /\ SelectSeq(pure.input, IsAlnumHyphen) = <<>> => pure.once = DefaultCompany

\* C16: getCompanyConfig returns, for every string id, a bundle with a
\* non-empty name and a non-empty responseStyle, and the generic bundle for
\* every id that is not a registered tenant.
C16_TenantTotal ==
  (pure.fn = "getCompanyConfig" /\ pure.stage = 1) =>
    LET bundle == ConfigOf(pure.once)
    IN /\ bundle.name \notin {"", Undefined}
       /\ bundle.responseStyle \notin {"", Undefined}
       /\ pure.input \notin RegisteredTenants => bundle = getGenericConfig

\* An event with an unknown route key has returned.
UnknownDone(i) == Done(i) /\ inv[i].route = "unknown"

\* The invocation attempted no push, called no API and wrote nothing.
Untouched(i) ==
  inv[i].pushAttempts = 0 /\ inv[i].apiCalls = 0 /\ inv[i].wrote = {} /\ inv[i].read = "none"

UpdateFailedDone(i) == MessageDone(i) /\ inv[i].updAttempts > 0 /\ "update" \notin inv[i].wrote

\* C18 as stated: a message event whose updateSession fails delivers one
\* 'error' push and no 'response' push, returns 500, sends the write once
\* and leaves the store as it was.
C18_UpdateFailure500 ==
  \A i \in Invs :
    UpdateFailedDone(i) =>
      /\ inv[i].status = 500
      /\ inv[i].pushes = <<ErrorPush(MsgGeneric)>>
      /\ inv[i].updAttempts = 1
      /\ inv[i].wrote = {}

\* C18 amended: such an event returns 500, sends the write once, attempts
\* one push, the generic 'error', and never a 'response'; the error push is
\* delivered when the transport accepts it; the invocation writes nothing
\* unless that push is answered 410, when it deletes the connection's items.
C18_UpdateFailure500PushAttempted ==
  \A i \in Invs :
    UpdateFailedDone(i) =>
      /\ inv[i].status = 500
      /\ inv[i].updAttempts = 1
      /\ inv[i].pushAttempts = 1
      /\ \A k \in 1..Len(inv[i].pushes) : inv[i].pushes[k] = ErrorPush(MsgGeneric)
      /\ PushesAccepted(i) => inv[i].pushes = <<ErrorPush(MsgGeneric)>>
      /\ inv[i].wrote \subseteq {"delete"}
      /\ inv[i].wrote # {} => inv[i].gone

C18_Witness ==
  \E i \in Invs :
    /\ UpdateFailedDone(i) /\ inv[i].pushes = <<ErrorPush(MsgGeneric)>>
    /\ \E r \in RowsOf(store, inv[i].conn) : r.conversationHistory = <<>>

\* A message event whose getSession query failed has returned.
ReadFailedDone(i) == MessageDone(i) /\ inv[i].read = "failed"

GoneCleanupStep(i) ==
  inv[i].ctx = "push" /\ inv[i].pc \in {"remove", "delete"} /\ inv'[i] # inv[i]

\* The step ends removeConnection with none of the items it found left.
GoneCleanupEnds(i) ==
  /\ inv[i].pc = "delete"
  /\ \A x \in store' : KeyOf(x) \notin inv[i].keys

\* What sendMessage's caller does when sendMessage returns normally: no
\* further push, and the status it would have returned had the push succeeded.
Swallowed(i) ==
  /\ inv'[i].pc = "done"
  /\ inv'[i].status = inv[i].after
  /\ inv'[i].pushAttempts = inv[i].pushAttempts
  /\ inv'[i].pushes = inv[i].pushes

\* C20 as stated: after a push answered 410 the handler deletes the items of
\* the connection and returns the status of a successful push, with no
\* further push.
C20_GoneSwallowed ==
  [][\A i \in Invs :
       (GoneCleanupStep(i) /\ inv'[i].pc # "delete") =>
         Swallowed(i) /\ RowsOf(store', inv[i].conn) = {}]_vars

\* C20 amended: that holds when removeConnection's query and deletes
\* succeed.  When one of them fails during a push made outside
\* handleMessage's catch block, the error reaches that block: the generic
\* 'error' push is attempted and the event returns 500; inside the catch
\* block the handler returns 500 with no further push.
C20_GoneSwallowedIfCleaned ==
  [][\A i \in Invs :
       GoneCleanupStep(i) =>
         /\ inv[i].pc = "remove" =>
              \/ inv'[i].pc = "delete" /\ inv'[i].keys = {KeyOf(x) : x \in RowsOf(store, inv[i].conn)}
              \/ inv'[i].pc # "delete" /\ store' = store
         /\ GoneCleanupEnds(i) => Swallowed(i) /\ RowsOf(store', inv[i].conn) = {}
         /\ (inv'[i].pc # "delete" /\ ~GoneCleanupEnds(i)) =>
              IF inv[i].inCatch
                THEN inv'[i].pc = "done" /\ inv'[i].status = 500
                     /\ inv'[i].pushAttempts = inv[i].pushAttempts
                ELSE inv'[i].pc = "push" /\ inv'[i].pending = ErrorPush(MsgGeneric)
                     /\ inv'[i].after = 500]_vars

C20_Witness ==
  \E i \in Invs :
    /\ MessageDone(i) /\ inv[i].gone /\ inv[i].status = 200
    /\ inv[i].pushAttempts = 1 /\ inv[i].pushes = <<>>
    /\ "delete" \in inv[i].wrote /\ RowsOf(store, inv[i].conn) = {}

\* C21: a message event in which a push failed with an error other than 410
\* returns 500 and deletes no item of the connection.
C21_PushFailure500 ==
  \A i \in Invs :
    (inv[i].route = "sendMessage" /\ inv[i].pushFailed) =>
      /\ Done(i) => inv[i].status = 500
      /\ inv[i].pc \notin {"remove", "delete"} /\ "delete" \notin inv[i].wrote

\* C21 as amended: the event returns 500, and it deletes no item unless
\* another push of the same event was answered 410.
C21_PushFailure500UnlessGone ==
  \A i \in Invs :
    (inv[i].route = "sendMessage" /\ inv[i].pushFailed) =>
      /\ Done(i) => inv[i].status = 500
      /\ ~inv[i].gone => (inv[i].pc \notin {"remove", "delete"} /\ "delete" \notin inv[i].wrote)

C21_Witness ==
  \E i \in Invs :
    /\ MessageDone(i) /\ inv[i].pushFailed /\ ~inv[i].gone
    /\ "update" \in inv[i].wrote /\ inv[i].status = 500
    /\ RowsOf(store, inv[i].conn) # {}

\* A step in which handleConnection ran in slot i and returned.
ConnectionStep(i) ==
  /\ inv[i].pc = "idle"
  /\ inv'[i].pc = "done"
  /\ inv'[i].route = "$connect"
  /\ inv'[i].routed

\* C22: a $connect event that handleConnection handles returns 200 or 500.
\* With 200 the store gained exactly one item and lost none: the item is the
\* connection's, has empty history, a session id no earlier session had, a
\* tenant id that validateCompanyId returns and the bundle getCompanyConfig
\* gives for that id.  With 500 the store is as it was.
C22_ConnectCreatesOneRow ==
  [][\A i \in Invs :
       ConnectionStep(i) =>
         /\ inv'[i].status \in {200, 500}
         /\ inv'[i].status = 500 => store' = store
         /\ inv'[i].status = 200 =>
               \E row \in store' \ store :
                 /\ store' = store \cup {row}
                 /\ row.PK = inv'[i].conn
                 /\ row.SessionId \in Sids \ usedSids
                 /\ row.SK = row.SessionId
                 /\ \A q \in store : q.SessionId # row.SessionId
                 /\ row.companyId \in {validateCompanyId(c) : c \in Companies}
                 /\ row.companyConfig = getCompanyConfig(row.companyId)
                 /\ row.conversationHistory = <<>>]_vars

C22_Witness ==
  \E i \in Invs :
    /\ Done(i) /\ inv[i].route = "$connect" /\ inv[i].status = 200
    /\ \E row \in RowsOf(store, inv[i].conn), other \in RowsOf(store, inv[i].conn) :
         /\ row # other
         /\ row.companyId = <<"a", "c", "m", "e">>
         /\ row.companyConfig = "generic"
         /\ row.conversationHistory = <<>>
         /\ other.companyId = DefaultCompany
         /\ other.companyConfig = "vanguard"

\* What generateResponse returned to the message invocation in slot i, while
\* handleMessage still holds it.
Generated(i) == inv[i].route = "sendMessage" /\ inv[i].pc = "update"

\* The placeholder replies for the message and the session of slot i.
Placeholders(i) ==
  {LocalResponses(inv[i].text, ConfigOf(inv[i].session.companyConfig))[k] : k \in 1..4}

\* C23: with the key "dummy-key-for-local-dev" a message makes no API call
\* and generateResponse returns one of the placeholder replies; with another
\* key generateResponse never returns a placeholder, and after a failed
\* request it returns the fallback.
C23_OfflinePlaceholder ==
  \A i \in Invs :
    /\ apiKey = "dummy-key-for-local-dev" =>
          /\ inv[i].apiCalls = 0
          /\ Generated(i) => inv[i].gen.value \in Placeholders(i)
    /\ (apiKey # "dummy-key-for-local-dev" /\ Generated(i)) =>
          /\ inv[i].gen.value \notin Placeholders(i)
          /\ inv[i].apiCalls >= 1
          /\ inv[i].apiLog[Len(inv[i].apiLog)].kind # "ok" =>
                inv[i].gen.value = getFallbackResponse(ConfigOf(inv[i].session.companyConfig))

C23_Witness ==
  \E i \in Invs :
    /\ apiKey = "dummy-key-for-local-dev"
    /\ Generated(i)
    /\ inv[i].apiCalls = 0
    /\ inv[i].gen.value = LocalResponses(Hello, getGenericConfig)[2]

\* C24: validateMessage either throws or returns a text of at most 500
\* characters, and it throws 'Message too long' for every string of more
\* than 500 characters, also one that sanitizeText would bring under the limit.
C24_LengthCeiling ==
  (pure.fn = "validateMessage" /\ pure.stage >= 1) =>
    /\ pure.once.ok => Len(pure.once.text) <= 500
    /\ (pure.input.json = "object" /\ pure.input.tkind = "string"
          /\ Len(pure.input.text) > 500) =>
         (~pure.once.ok /\ pure.once.err = "Message too long")

C24_Witness ==
  /\ pure.fn = "validateMessage" /\ pure.stage >= 1
  /\ pure.once.ok
  /\ Len(pure.input.text) = 500
  /\ Len(pure.once.text) = 500

\* A message invocation, handled by handleMessage, whose body JSON.parse
\* could not parse.
Unparseable(i) ==
  inv[i].route = "sendMessage" /\ inv[i].routed /\ inv[i].verdict = "unparseable"

\* C25 as stated: such an invocation returns 500 after one attempt to push
\* the generic error, calls the API never and writes nothing to the store.
C25_UnparseableNoEffect ==
  \A i \in Invs :
    Unparseable(i) =>
      /\ inv[i].apiCalls = 0
      /\ inv[i].wrote = {}
      /\ inv[i].pc = "push" => inv[i].pending = ErrorPush(MsgGeneric)
      /\ Done(i) => (inv[i].status = 500 /\ inv[i].pushAttempts = 1)

\* C25 amended: it returns 500 after one attempt to push the generic error,
\* calls the API never, reads no session and neither puts nor updates an
\* item; it deletes the connection's items only when the push was answered 410.
C25_UnparseableNoEffectUnlessGone ==
  \A i \in Invs :
    Unparseable(i) =>
      /\ inv[i].apiCalls = 0
      /\ inv[i].read = "none"
      /\ inv[i].wrote \subseteq {"delete"}
      /\ inv[i].wrote # {} => inv[i].gone
      /\ inv[i].pc = "push" => inv[i].pending = ErrorPush(MsgGeneric)
      /\ Done(i) => (inv[i].status = 500 /\ inv[i].pushAttempts = 1)

C25_Witness ==
  \E i \in Invs :
    /\ Unparseable(i) /\ Done(i)
    /\ inv[i].status = 500
    /\ inv[i].pushes = <<ErrorPush(MsgGeneric)>>
    /\ RowsOf(store, inv[i].conn) # {}

\* No invocation is between two of its steps.
Quiescent == \A i \in Invs : inv[i].pc \in {"idle", "done"}

\* C26: once a $disconnect for c has cleaned up and every invocation that was
\* in flight beside it has returned, the table holds no item of c.
C26_NoRowAfterLateUpdate ==
  \A c \in Conns : (cleanDisc[c] /\ Quiescent) => RowsOf(store, c) = {}

\* C27: the item getSession returns for a connection, when it returns one,
\* has a companyConfig, and no message takes the branch of a missing one.
C27_SnapshotAlwaysPresent ==
  /\ \A c \in Conns :
       QueryLatest(store, c) # NoRow => QueryLatest(store, c).companyConfig # "none"
  /\ \A i \in Invs : inv[i].pending # ErrorPush(MsgNoConfig)

\* A step in which the updateSession of slot i wrote its item.
UpdateStep(i) == inv[i].pc = "update" /\ inv'[i].pc = "push" /\ "update" \in inv'[i].wrote

\* C28: the history an updateSession stores is the history its invocation
\* read (its last 8 entries) followed by its own exchange, whatever another
\* invocation stored since that read: an exchange written in between is
\* lost, nothing is merged and the write is not refused.  Every message that
\* wrote returns 200 after pushing its response once.
C28_LastWriterWins ==
  /\ [][\A i \in Invs :
          UpdateStep(i) =>
            \E q \in store' :
              /\ KeyOf(q) = <<inv[i].conn, inv[i].session.SessionId>>
              /\ q.conversationHistory = inv[i].updHistory
              /\ Len(q.conversationHistory)
                   = Len(sliceLast(inv[i].session.conversationHistory, 8)) + 1
              /\ SubSeq(q.conversationHistory, 1, Len(q.conversationHistory) - 1)
                   = sliceLast(inv[i].session.conversationHistory, 8)
              /\ q.conversationHistory[Len(q.conversationHistory)].user = inv[i].text]_vars
  /\ [](\A i \in Invs :
          (MessageDone(i) /\ "update" \in inv[i].wrote) =>
            /\ inv[i].status = 200
            /\ inv[i].pushAttempts = 1
            /\ inv[i].pending.type = "response"
            /\ PushesAccepted(i) => Len(inv[i].pushes) = 1)

\* Two messages of one connection wrote while both were in flight, each from
\* the empty history it had read: the item holds one exchange.
C28_Witness ==
  \E i, j \in Invs :
    /\ i # j
    /\ inv[i].conn = inv[j].conn
    /\ inv[i].route = "sendMessage" /\ inv[j].route = "sendMessage"
    /\ "update" \in inv[i].wrote /\ "update" \in inv[j].wrote
    /\ inv[i].pc = "push" /\ inv[j].pc = "push"
    /\ QueryLatest(store, inv[i].conn) # NoRow
    /\ Len(QueryLatest(store, inv[i].conn).conversationHistory) = 1

RetryableFailure(outcome) ==
  /\ outcome.kind = "error"
  /\ \/ outcome.status \in {429, 500, 502, 503, 504}
     \/ outcome.msg \in {"timeout", "network"}

\* C30: every attempt that was followed by another one failed retryably and
\* was not the third; one wait precedes each retry; after an attempt that
\* failed otherwise generateResponse returns the fallback at once, so that a
\* first attempt failing non-retryably leaves one API call and no wait.
C30_RetryOnlyRetryable ==
  \A i \in Invs :
    LET log == inv[i].apiLog
        n == Len(log)
    IN /\ \A k \in 1..(n - 1) : RetryableFailure(log[k]) /\ k < 3
       /\ (inv[i].pc = "generate" /\ n >= 1) =>
            (RetryableFailure(log[n]) /\ n < 3 /\ Len(inv[i].waits) = n)
       /\ (inv[i].pc = "update" /\ n >= 1) =>
            /\ inv[i].apiCalls = n
            /\ Len(inv[i].waits) = n - 1
            /\ log[n].kind # "ok" =>
                 inv[i].gen.value = getFallbackResponse(ConfigOf(inv[i].session.companyConfig))
            /\ (log[1].kind # "ok" /\ ~RetryableFailure(log[1])) =>
                 (inv[i].apiCalls = 1 /\ inv[i].waits = <<>>)

C30_Witness ==
  \E i \in Invs :
    /\ inv[i].pc = "update"
    /\ inv[i].apiLog = <<ApiError(401, "none")>>
    /\ inv[i].apiCalls = 1
    /\ inv[i].waits = <<>>
    /\ inv[i].gen.value = getFallbackResponse(ConfigOf(inv[i].session.companyConfig))

\* Every API attempt of slot i so far was answered 503.
All503(i) ==
  \A k \in 1..Len(inv[i].apiLog) : inv[i].apiLog[k] = ApiError(503, "none")

\* C31: the k-th wait of an invocation lasts k seconds and follows its k-th
\* failed attempt; while a retry is due there are as many waits as attempts,
\* and once generateResponse has returned there is one wait fewer than
\* attempts: none follows the last one.  An API that answers 503 every time
\* is called 3 times, with waits of 1 s and 2 s, and the fallback is returned.
C31_LinearBackoff ==
  \A i \in Invs :
    /\ \A k \in 1..Len(inv[i].waits) : inv[i].waits[k] = k * 1000
    /\ (inv[i].pc = "generate" /\ inv[i].apiCalls >= 1) =>
         (Len(inv[i].waits) = inv[i].apiCalls /\ inv[i].attempt = inv[i].apiCalls + 1)
    /\ (inv[i].pc = "update" /\ inv[i].apiCalls >= 1) =>
         Len(inv[i].waits) = inv[i].apiCalls - 1
    /\ (inv[i].pc = "update" /\ inv[i].apiCalls >= 1 /\ All503(i)) =>
         /\ inv[i].apiCalls = 3
         /\ inv[i].waits = <<1000, 2000>>
         /\ inv[i].gen.value = getFallbackResponse(ConfigOf(inv[i].session.companyConfig))

C31_Witness ==
  \E i \in Invs :
    /\ inv[i].pc = "update"
    /\ inv[i].apiLog = <<ApiError(503, "none"), ApiError(503, "none"), ApiError(503, "none")>>
    /\ inv[i].waits = <<1000, 2000>>

\* s is what remains of h when some of its first elements are dropped.
IsSuffix(s, h) ==
  Len(s) <= Len(h) /\ s = SubSeq(h, Len(h) - Len(s) + 1, Len(h))

\* C32: a message event that succeeds on an item whose history is h leaves
\* there a history whose last element is the new exchange and whose elements
\* before it are the last elements of h in their order, all of h when h has
\* at most 8; on an empty h the history has length 1.
C32_HistoryAppends ==
  [][\A i \in Invs :
       UpdateStep(i) =>
         \E h \in store, q \in store' :
           /\ KeyOf(h) = <<inv[i].conn, inv[i].session.SessionId>>
           /\ KeyOf(q) = KeyOf(h)
           /\ LET old == h.conversationHistory
                  new == q.conversationHistory
              IN /\ Len(new) >= 1
                 /\ new[Len(new)] = [user |-> inv[i].text,
                                      assistant |-> inv[i].gen.value,
                                      timestamp |-> inv[i].callMs]
                 /\ IsSuffix(SubSeq(new, 1, Len(new) - 1), old)
                 /\ Len(old) <= 8 => SubSeq(new, 1, Len(new) - 1) = old
                 /\ old = <<>> => Len(new) = 1]_vars

\* A message has just been stored on a history that was full and mixed.
C32_Witness ==
  \E i \in Invs, q \in store :
    /\ inv[i].pc = "push" /\ "update" \in inv[i].wrote
    /\ q.PK = inv[i].conn
    /\ Len(q.conversationHistory) = 9
    /\ q.conversationHistory[1].user = Howdy
    /\ q.conversationHistory[2].user = Hello
    /\ q.conversationHistory[9].user = Hello

\* C33: a message invocation calls the API only after getSession returned an
\* item with a companyConfig, sends updateSession's command only after
\* generateResponse returned, and is about to push or has pushed a
\* 'response' only after its own updateSession succeeded.
C33_GeneratePersistPush ==
  \A i \in Invs :
    /\ (inv[i].pc = "generate" \/ inv[i].apiCalls >= 1) => inv[i].read = "present"
    /\ inv[i].pc \in {"generate", "update"} => inv[i].session.companyConfig # "none"
    /\ (inv[i].pc = "update" \/ inv[i].updAttempts >= 1) => inv[i].apiCalls >= 1
    /\ inv[i].pc = "update" => ~inv[i].gen.threw
    /\ inv[i].pending.type = "response" =>
         ("update" \in inv[i].wrote /\ inv[i].updAttempts = 1 /\ inv[i].apiCalls >= 1)
    /\ \A k \in 1..Len(inv[i].pushes) :
         inv[i].pushes[k].type = "response" => "update" \in inv[i].wrote

C33_Witness ==
  \E i \in Invs :
    /\ MessageDone(i) /\ inv[i].status = 200
    /\ Len(inv[i].pushes) = 1 /\ inv[i].pushes[1].type = "response"
    /\ "update" \in inv[i].wrote /\ inv[i].apiCalls = 3

\* A step in which getSession returned to the message invocation in slot i.
ReadStep(i) == inv[i].pc = "session" /\ inv'[i].pc # "session"

\* C34: whatever sessionId a message carries, getSession gives it the latest
\* item of its connection, its updateSession changes that item and no other,
\* and it returns 404 after one 'error' push when the connection has no item
\* and 200 after one 'response' push when it has one.
C34_SessionIdIgnored ==
  /\ [][\A i \in Invs :
          /\ ReadStep(i) =>
               /\ inv'[i].read = "absent" <=> QueryLatest(store, inv[i].conn) = NoRow
               /\ inv'[i].read = "present" =>
                    inv'[i].session = QueryLatest(store, inv[i].conn)
          /\ UpdateStep(i) =>
               /\ inv[i].session = QueryLatest(store, inv[i].conn)
               /\ \A x \in store : x # QueryLatest(store, inv[i].conn) => x \in store'
               /\ \E q \in store' :
                    /\ KeyOf(q) = KeyOf(QueryLatest(store, inv[i].conn))
                    /\ q.conversationHistory =
                         UpdatedHistory(QueryLatest(store, inv[i].conn).conversationHistory,
                                        inv[i].text, inv[i].gen.value, inv[i].callMs)]_vars
  /\ [](\A i \in Invs :
          (MessageDone(i) /\ inv[i].verdict = "valid") =>
            /\ Len(inv[i].pushes) = 1
            /\ inv[i].read = "absent" =>
                 (inv[i].status = 404 /\ inv[i].pushes = <<ErrorPush(MsgNoSession)>>)
            /\ inv[i].read = "present" =>
                 (inv[i].status = 200 /\ inv[i].pushes[1].type = "response"))

\* A message that named the connection's older session has updated the
\* latest one.
C34_Witness ==
  \E i \in Invs, old \in store, new \in store :
    /\ MessageDone(i) /\ inv[i].status = 200
    /\ old.PK = inv[i].conn /\ new.PK = inv[i].conn
    /\ old.SK < new.SK
    /\ inv[i].sessionId = old.SessionId
    /\ old.conversationHistory = <<>>
    /\ Len(new.conversationHistory) = 1

\* C35: a createConnection that succeeds leaves every item of the table as
\* it was and adds one whose key and session id no item had; and no step
\* gives the item under a key another SessionId than it had.
C35_ConnectNeverOverwrites ==
  [][/\ \A i \in Invs :
          (ConnectionStep(i) /\ "put" \in inv'[i].wrote) =>
            /\ store \subseteq store'
            /\ store' # store
            /\ \A new \in store' \ store : \A r \in store :
                 KeyOf(r) # KeyOf(new) /\ r.SessionId # new.SessionId
     /\ \A r \in store : \A q \in store' :
          KeyOf(r) = KeyOf(q) => q.SessionId = r.SessionId]_vars

\* A connect on a connection with a session in use has added a second item.
C35_Witness ==
  \E i \in Invs, old \in store, new \in store :
    /\ Done(i) /\ inv[i].route = "$connect" /\ inv[i].status = 200
    /\ old.PK = inv[i].conn /\ new.PK = inv[i].conn
    /\ old.SessionId # new.SessionId
    /\ Len(old.conversationHistory) = 1
    /\ new.conversationHistory = <<>>

\* A step in which the cleanup handler in slot i returned.
SweepReturn(i) ==
  inv[i].pc \in {"idle", "sweep"} /\ inv'[i].pc = "done" /\ inv'[i].route = "sweep"

\* C36: when a cleanup run returns, no other invocation having run beside
\* it and the clock reading what it read when the run began, every item
\* whose TTL is before that time is gone and every other item is in the
\* table as it was.
C36_SweepDeletesExpired ==
  [][\A i \in Invs :
       SweepReturn(i) =>
         \A x \in store :
           /\ x.TTL < Seconds(nowMs) => x \notin store'
           /\ x.TTL >= Seconds(nowMs) => x \in store']_vars

\* The cleanup run that returns in this step completed: its scan had
\* returned and no item it scanned is left in the table.
SweepCompleted(i) ==
  inv[i].pc = "sweep" /\ \A x \in store' : KeyOf(x) \notin inv[i].keys

\* C37: the cleanup handler returns 200 when its run completed and 500 when
\* the scan or a delete failed.
C37_SweepReportsFailure ==
  [][\A i \in Invs :
       SweepReturn(i) =>
         /\ inv'[i].status \in {200, 500}
         /\ inv'[i].status = 200 <=> SweepCompleted(i)]_vars

\* The smaller of two numbers.
Min(a, b) == IF a <= b THEN a ELSE b

\* C38: buildMessageContext returns 2 + 2 * min(3, |history|) turns: the
\* system message, then for each of the min(3, |history|) latest exchanges,
\* oldest first, its user turn and its assistant turn, then the new user
\* message.
C38_ContextShape ==
  (pure.fn = "buildMessageContext" /\ pure.stage = 1) =>
    LET h == pure.input.history
        n == Min(3, Len(h))
        out == pure.once
    IN /\ Len(out) = 2 + 2 * n
       /\ out[1] = [role |-> "system", content |-> SystemPrompt]
       /\ out[Len(out)] = [role |-> "user", content |-> pure.input.userMessage]
       /\ \A k \in 1..n :
            /\ out[2 * k] = [role |-> "user", content |-> h[Len(h) - n + k].user]
            /\ out[2 * k + 1] =
                 [role |-> "assistant", content |-> h[Len(h) - n + k].assistant]

C38_Witness ==
  /\ pure.fn = "buildMessageContext" /\ pure.stage = 1
  /\ Len(pure.input.history) = 5
  /\ Len(pure.once) = 8
  /\ pure.once[2].content = <<"q", "q", "q">>
  /\ pure.once[7].content = <<"a", "a", "a", "a", "a">>

\* How often message m occurs in seq.
Occurrences(seq, m) == Cardinality({k \in 1..Len(seq) : seq[k] = m})

\* C39: every message typed into the GenericChatWidget is either still in
\* messageQueue or has been put on an open socket, exactly once in all, and
\* the messages reach the wire in the order they were typed: none is dropped
\* and none is sent twice, whatever connection attempts are in progress.
C39_QueuedSentOnce ==
  /\ \A m \in 1..generic.typed :
       Occurrences(generic.messageQueue, m) + Occurrences(generic.wire, m) = 1
  /\ \A j, k \in 1..Len(generic.wire) : j < k => generic.wire[j] < generic.wire[k]

\* A socket of the React widget opens.
ReactOpenStep == \E s \in ReactSockets : react.readyState[s] = "connecting"
                                         /\ react'.readyState[s] = "open"

\* C40: the React ChatWidget never has more than maxRetries reconnect
\* attempts in a row without an onopen between them, makes none after it has
\* unmounted, and an onopen sets reconnectAttempts to 0.
C40_BoundedReconnects ==
  /\ [](react.streak <= propMaxRetries /\ ~react.late)
  /\ [][(ReactOpenStep /\ react.mounted) => react'.reconnectAttempts = 0]_vars

====
